---- MODULE Spec2Model ----
(***************************************************************************)
(* Pipeline orchestration core of the Malu bots.                           *)
(*                                                                         *)
(* Spec     : the task queue of mkv.py (worker threads) and ki.py          *)
(*            (asyncio tasks): handlers submit, process_queue drains.      *)
(* SpecPipe : the queue-less download_anime handlers of kot.py, rot.py,    *)
(*            rc.py and bot.py together with the progress callback and     *)
(*            its process-wide last_update_time.                           *)
(* SpecSink : safe_edit_message, called repeatedly on one status message.  *)
(* SpecJob  : one run of the pipeline body (ki.py task, kot.py              *)
(*            download_anime) with every call that can fail.               *)
(* SpecSub  : the sign subtitle stage of ki.py: extract_sign_subtitles on  *)
(*            a subtitle file, the size test and add_sign_subtitles.       *)
(* SpecMerge: one call of add_sign_subtitles on the files of a directory.  *)
(* SpecLookup: the fetch_anilist_cover calls of one auto_rename_with_anitopy.*)
(* SpecShorten: shorten_anime_name on bounded titles and bounds.           *)
(***************************************************************************)
EXTENDS Integers, Sequences, FiniteSets, TLC

\* ------------------------------------------------------------------ bounds
MaxTasks == 2
MaxRequests == 2
MaxCalls == 2
MaxTime == 8
MaxAnnounces == 3
MaxTexts == 2
MaxWait == 2
MaxLines == 2
MaxGiB == 2
MaxCues == 2
MaxContents == 4
MaxTitle == 5
MaxBound == 5
\* byte counts and seconds of a progress sample
MaxSample == 3
\* what the child writes to stdout and to stderr, in chunks of 64 KiB
MaxOut == 4
MaxErr == 4

\* ------------------------------------------------------ program constants
\* "if current_time - last_update_time >= 2"
MinInterval == 2
\* "await asyncio.sleep(5)" between mux and upload
SettleDelay == 5
\* "if file_size > 2 * 1024 ** 3"
LimitGiB == 2
\* "parts = line.split(",", 9)" and "if len(parts) < 10"
MaxSplit == 9
\* "def fetch_anilist_cover(anime_title, retries=3)" and "time.sleep(2)"
retries == 3
Backoff == 2
\* "def shorten_anime_name(name, max_length=25)", "[:max_length - 3]"
DefaultBound == 25
EllipsisLength == 3
\* a single-segment title longer than the default bound
LongTitleLength == 40
FieldCount == 10
\* in chunks of 64 KiB: the buffer of a pipe, and twice the default limit of
\* the StreamReader that create_subprocess_exec makes for it
PipeChunks == 1
ReaderChunks == 2
Giga == 1073741824

\* ------------------------------------------------------------- identifiers
None == 0
Tasks == 1 .. MaxTasks
\* handler h submits task h; the drain loop it may start is Drain(h)
Handlers == 1 .. MaxTasks
Drain(h) == MaxTasks + h
Drains == {Drain(h) : h \in Handlers}
Procs == Handlers \cup Drains
\* the handle_message call that serves the /queue command
Lister == 2 * MaxTasks + 1
Variants == {"mkv", "ki"}
Requests == 1 .. MaxRequests

VARIABLES
    variant,        \* entry script: "mkv" (threads), "ki" (one asyncio loop)
                    \* or, under SpecPipe, "kot" (no queue)
    task_queue,     \* deque of pending tasks
    queue_lock,     \* owner of queue_lock, None when free
    current_task,   \* the module global current_task
    pc,             \* position of every handler and every process_queue call
    running,        \* per drain loop: the task body it is executing
    cpu,            \* "ki": the coroutine that holds the event loop
    submitted,      \* history: tasks in the order of their append
    invoked,        \* history: how often each task body was called
    finished,       \* history: task bodies in the order they ended
    status          \* mkv.py: the one /queue message and the listing that
                    \* handle_message builds for it

qvars == <<variant, task_queue, queue_lock, current_task, pc, running, cpu,
           submitted, invoked, finished, status>>

VARIABLES
    now,              \* time.time(), in seconds
    last_update_time, \* the module global of every bot script
    rpc,              \* position of every download_anime call
    wake,             \* per call: when its asyncio.sleep(5) is over
    start_time,       \* per call: start_time of its transfer
    current_time,     \* per call: current_time of its running progress()
    calls,            \* per call: progress callbacks made by its transfer
    outcome,          \* per call: how it ended
    emitted,          \* history, per call: current_time of each accepted edit
    first             \* history: what the first callback of a transfer did

pvars == <<now, last_update_time, rpc, wake, start_time, current_time, calls,
           outcome, emitted, first>>

VARIABLES
    sink,             \* one status message and the safe_edit_message call on it
    job,              \* one run of the task body of ki.py / download_anime of
                      \* kot.py, statement by statement
    ass,              \* one run of the sign subtitle stage of ki.py on one
                      \* subtitle file
    mux,              \* one call of add_sign_subtitles and the files it
                      \* touches
    look,             \* the cover lookups of one auto_rename_with_anitopy call
    short,            \* one call of shorten_anime_name
    prog,             \* one progress sample: the figures progress() computes
    enc,              \* one run of a task body of mkv.py and the files it
                      \* leaves on disk
    proc              \* the aniDL child process, its two pipes and the
                      \* statements of the task that read them

dvars == <<sink, job, ass, mux, look, short, prog, enc, proc>>

vars == <<qvars, pvars, dvars>>

\* ------------------------------------------------------------- scheduling
\* mkv.py runs handlers and process_queue on threads: any interleaving.
\* ki.py runs them as coroutines of one event loop: a coroutine keeps the
\* loop until it awaits or returns.
CanRun(p) == variant = "mkv" \/ cpu \in {None, p}

Keep(p) == cpu' = IF variant = "ki" THEN p ELSE None

Yield == cpu' = None

\* ------------------------------------------------------------------ Init
QInit ==
    /\ task_queue = <<>>
    /\ queue_lock = None
    /\ current_task = None
    /\ pc = [p \in Procs |-> IF p \in Handlers THEN "idle" ELSE "unborn"]
    /\ running = [d \in Drains |-> None]
    /\ cpu = None
    /\ submitted = <<>>
    /\ invoked = [t \in Tasks |-> 0]
    /\ finished = <<>>
    /\ status = [lpc |-> "idle", seen |-> <<>>, snapshot |-> <<>>]

\* last_update_time = time.time() runs when the module is loaded
PInit ==
    /\ now = 0
    /\ last_update_time = 0
    /\ rpc = [r \in Requests |-> "idle"]
    /\ wake = [r \in Requests |-> 0]
    /\ start_time = [r \in Requests |-> 0]
    /\ current_time = [r \in Requests |-> 0]
    /\ calls = [r \in Requests |-> 0]
    /\ outcome = [r \in Requests |-> "none"]
    /\ emitted = [r \in Requests |-> <<>>]
    /\ first = {}

\* --------------------------------------------------------------- submit
\* mkv.py handle_message / handle_file_upload, ki.py download_anime:
\*     with queue_lock:
\*         task_queue.append(task)
\*         if not current_task:
\*             threading.Thread(target=process_queue).start()
\*             (ki.py: asyncio.create_task(process_queue()))
\* Handlers are numbered in the order in which they take the lock, so task h
\* is the h-th task submitted.
HandlerLock(h) ==
    /\ pc[h] = "idle"
    /\ \A g \in Handlers : g < h => pc[g] # "idle"
    /\ CanRun(h)
    /\ queue_lock = None
    /\ queue_lock' = h
    /\ pc' = [pc EXCEPT ![h] = "locked"]
    /\ Keep(h)
    /\ UNCHANGED <<variant, task_queue, current_task, running, submitted,
                   invoked, finished>>
    /\ UNCHANGED <<pvars, dvars, status>>

HandlerAppend(h) ==
    /\ pc[h] = "locked"
    /\ CanRun(h)
    /\ task_queue' = Append(task_queue, h)
    /\ submitted' = Append(submitted, h)
    /\ pc' = [pc EXCEPT ![h] = "appended"]
    /\ Keep(h)
    /\ UNCHANGED <<variant, queue_lock, current_task, running, invoked,
                   finished>>
    /\ UNCHANGED <<pvars, dvars, status>>

\* "if not current_task" is true: a new process_queue is started
HandlerStartWorker(h) ==
    /\ pc[h] = "appended"
    /\ CanRun(h)
    /\ current_task = None
    /\ pc' = [pc EXCEPT ![h] = "unlock", ![Drain(h)] = "start"]
    /\ Keep(h)
    /\ UNCHANGED <<variant, task_queue, queue_lock, current_task, running,
                   submitted, invoked, finished>>
    /\ UNCHANGED <<pvars, dvars, status>>

\* "if not current_task" is false: the task is only appended
HandlerNoWorker(h) ==
    /\ pc[h] = "appended"
    /\ CanRun(h)
    /\ current_task # None
    /\ pc' = [pc EXCEPT ![h] = "unlock"]
    /\ Keep(h)
    /\ UNCHANGED <<variant, task_queue, queue_lock, current_task, running,
                   submitted, invoked, finished>>
    /\ UNCHANGED <<pvars, dvars, status>>

\* end of the with block; the handler returns
HandlerUnlock(h) ==
    /\ pc[h] = "unlock"
    /\ CanRun(h)
    /\ queue_lock' = None
    /\ pc' = [pc EXCEPT ![h] = "done"]
    /\ Yield
    /\ UNCHANGED <<variant, task_queue, current_task, running, submitted,
                   invoked, finished>>
    /\ UNCHANGED <<pvars, dvars, status>>

\* -------------------------------------------------------- process_queue
\* while True:
\*     with queue_lock:
\*         if not task_queue: current_task = None; break
\*         current_task = task_queue.popleft()
\*     try: current_task()          (ki.py: await current_task())
\*     except Exception as e: print(...)
\*     finally: current_task = None
DrainLock(d) ==
    /\ pc[d] \in {"start", "loop"}
    /\ CanRun(d)
    /\ queue_lock = None
    /\ queue_lock' = d
    /\ pc' = [pc EXCEPT ![d] = "locked"]
    /\ Keep(d)
    /\ UNCHANGED <<variant, task_queue, current_task, running, submitted,
                   invoked, finished>>
    /\ UNCHANGED <<pvars, dvars, status>>

DrainEmpty(d) ==
    /\ pc[d] = "locked"
    /\ CanRun(d)
    /\ task_queue = <<>>
    /\ current_task' = None
    /\ pc' = [pc EXCEPT ![d] = "break"]
    /\ Keep(d)
    /\ UNCHANGED <<variant, task_queue, queue_lock, running, submitted,
                   invoked, finished>>
    /\ UNCHANGED <<pvars, dvars, status>>

\* faulty variant of DrainPop: the call of the task is inside the with block
DrainPopThenCall(d) ==
    /\ pc[d] = "locked"
    /\ CanRun(d)
    /\ task_queue # <<>>
    /\ current_task' = Head(task_queue)
    /\ task_queue' = Tail(task_queue)
    /\ pc' = [pc EXCEPT ![d] = "call"]
    /\ Keep(d)
    /\ UNCHANGED <<variant, queue_lock, running, submitted, invoked,
                   finished>>
    /\ UNCHANGED <<pvars, dvars, status>>

DrainPop(d) ==
    /\ pc[d] = "locked"
    /\ CanRun(d)
    /\ task_queue # <<>>
    /\ current_task' = Head(task_queue)
    /\ task_queue' = Tail(task_queue)
    /\ pc' = [pc EXCEPT ![d] = "popped"]
    /\ Keep(d)
    /\ UNCHANGED <<variant, queue_lock, running, submitted, invoked,
                   finished>>
    /\ UNCHANGED <<pvars, dvars, status>>

\* leaving the with block: after break the call returns, after a pop the
\* try statement follows
DrainUnlock(d) ==
    /\ pc[d] \in {"break", "popped"}
    /\ CanRun(d)
    /\ queue_lock' = None
    /\ pc' = [pc EXCEPT ![d] = IF pc[d] = "break" THEN "dead" ELSE "call"]
    /\ IF pc[d] = "break" THEN Yield ELSE Keep(d)
    /\ UNCHANGED <<variant, task_queue, current_task, running, submitted,
                   invoked, finished>>
    /\ UNCHANGED <<pvars, dvars, status>>

\* current_task(): the callee is read from the global, outside the lock.
\* Calling None raises TypeError, which the except clause catches.
DrainInvoke(d) ==
    /\ pc[d] = "call"
    /\ CanRun(d)
    /\ IF current_task = None
       THEN /\ pc' = [pc EXCEPT ![d] = "except"]
            /\ Keep(d)
            /\ UNCHANGED <<running, invoked>>
       ELSE /\ pc' = [pc EXCEPT ![d] = "running"]
            /\ running' = [running EXCEPT ![d] = current_task]
            /\ invoked' = [invoked EXCEPT ![current_task] = @ + 1]
            /\ Yield
    /\ UNCHANGED <<variant, task_queue, queue_lock, current_task, submitted,
                   finished>>
    /\ UNCHANGED <<pvars, dvars, status>>

\* the task body returns
TaskReturn(d) ==
    /\ pc[d] = "running"
    /\ CanRun(d)
    /\ finished' = Append(finished,
                          [task |-> running[d], raised |-> FALSE, by |-> d])
    /\ running' = [running EXCEPT ![d] = None]
    /\ pc' = [pc EXCEPT ![d] = "finally"]
    /\ Keep(d)
    /\ UNCHANGED <<variant, task_queue, queue_lock, current_task, submitted,
                   invoked>>
    /\ UNCHANGED <<pvars, dvars, status>>

\* the task body raises an Exception
TaskRaise(d) ==
    /\ pc[d] = "running"
    /\ CanRun(d)
    /\ finished' = Append(finished,
                          [task |-> running[d], raised |-> TRUE, by |-> d])
    /\ running' = [running EXCEPT ![d] = None]
    /\ pc' = [pc EXCEPT ![d] = "except"]
    /\ Keep(d)
    /\ UNCHANGED <<variant, task_queue, queue_lock, current_task, submitted,
                   invoked>>
    /\ UNCHANGED <<pvars, dvars, status>>

\* faulty variant of DrainExcept: the failure leaves process_queue, as it
\* would without the except clause
DrainExceptAborts(d) ==
    /\ pc[d] = "except"
    /\ CanRun(d)
    /\ pc' = [pc EXCEPT ![d] = "dead"]
    /\ Yield
    /\ UNCHANGED <<variant, task_queue, queue_lock, current_task, running,
                   submitted, invoked, finished>>
    /\ UNCHANGED <<pvars, dvars, status>>

\* except Exception as e: print(f"Task error: {e}")
DrainExcept(d) ==
    /\ pc[d] = "except"
    /\ CanRun(d)
    /\ pc' = [pc EXCEPT ![d] = "finally"]
    /\ Keep(d)
    /\ UNCHANGED <<variant, task_queue, queue_lock, current_task, running,
                   submitted, invoked, finished>>
    /\ UNCHANGED <<pvars, dvars, status>>

\* finally: current_task = None      (outside the with block)
DrainFinally(d) ==
    /\ pc[d] = "finally"
    /\ CanRun(d)
    /\ current_task' = None
    /\ pc' = [pc EXCEPT ![d] = "loop"]
    /\ Keep(d)
    /\ UNCHANGED <<variant, task_queue, queue_lock, running, submitted,
                   invoked, finished>>
    /\ UNCHANGED <<pvars, dvars, status>>

\* ------------------------------------------------------ handle_message
\* mkv.py, the /queue command (ki.py has none):
\*     with queue_lock:
\*         status = "Current Queue:\n" + "\n".join(
\*             [f"{i+1}. {t.__name__}" for i, t in enumerate(task_queue)]
\*         ) if task_queue else "Queue is empty"
\*     return message.reply(status)
\* status.seen is the list the comprehension has built so far, one element
\* of the deque per step; status.snapshot (history) is the queue as it was
\* when the with block was entered.

\* faulty variant of ListLock: the listing is built without queue_lock
ListNoLock ==
    /\ variant = "mkv"
    /\ status.lpc = "idle"
    /\ status' = [status EXCEPT !.lpc = "locked", !.snapshot = task_queue]
    /\ UNCHANGED <<variant, task_queue, queue_lock, current_task, pc, running,
                   cpu, submitted, invoked, finished>>
    /\ UNCHANGED <<pvars, dvars>>

\* with queue_lock:
ListLock ==
    /\ variant = "mkv"
    /\ status.lpc = "idle"
    /\ queue_lock = None
    /\ queue_lock' = Lister
    /\ status' = [status EXCEPT !.lpc = "locked", !.snapshot = task_queue]
    /\ UNCHANGED <<variant, task_queue, current_task, pc, running, cpu,
                   submitted, invoked, finished>>
    /\ UNCHANGED <<pvars, dvars>>

\* "... if task_queue else ...": the condition is evaluated first
ListTest ==
    /\ status.lpc = "locked"
    /\ status' = [status EXCEPT
                    !.lpc = IF task_queue = <<>> THEN "unlock" ELSE "read"]
    /\ UNCHANGED <<variant, task_queue, queue_lock, current_task, pc, running,
                   cpu, submitted, invoked, finished>>
    /\ UNCHANGED <<pvars, dvars>>

\* one step of enumerate(task_queue): the next element is formatted, or the
\* iterator is exhausted and the lines are joined
ListRead ==
    /\ status.lpc = "read"
    /\ IF Len(status.seen) < Len(task_queue)
       THEN status' = [status EXCEPT
                         !.seen = Append(@, task_queue[Len(@) + 1])]
       ELSE status' = [status EXCEPT !.lpc = "unlock"]
    /\ UNCHANGED <<variant, task_queue, queue_lock, current_task, pc, running,
                   cpu, submitted, invoked, finished>>
    /\ UNCHANGED <<pvars, dvars>>

\* end of the with block, then return message.reply(status): the reply
\* touches no shared state, and the local is gone when the handler returns
ListUnlock ==
    /\ status.lpc = "unlock"
    /\ queue_lock' = None
    /\ status' = [lpc |-> "done", seen |-> <<>>, snapshot |-> <<>>]
    /\ UNCHANGED <<variant, task_queue, current_task, pc, running, cpu,
                   submitted, invoked, finished>>
    /\ UNCHANGED <<pvars, dvars>>

QNext ==
    \/ ListLock
    \/ ListTest
    \/ ListRead
    \/ ListUnlock
    \/ \E h \in Handlers :
          \/ HandlerLock(h)
          \/ HandlerAppend(h)
          \/ HandlerStartWorker(h)
          \/ HandlerNoWorker(h)
          \/ HandlerUnlock(h)
    \/ \E d \in Drains :
          \/ DrainLock(d)
          \/ DrainEmpty(d)
          \/ DrainPop(d)
          \/ DrainUnlock(d)
          \/ DrainInvoke(d)
          \/ TaskReturn(d)
          \/ TaskRaise(d)
          \/ DrainExcept(d)
          \/ DrainFinally(d)

\* ------------------------------------------------------- download_anime
\* kot.py, rot.py, rc.py and bot.py have no queue: the handler of a
\* /download message runs the whole pipeline itself, and the dispatcher
\* runs the handlers of different messages as concurrent coroutines, which
\* interleave at every await.

\* the request is accepted, the status message is sent and aniDL is
\* started; without the tool the handler reports and returns
Request(r) ==
    /\ rpc[r] = "idle"
    /\ \A q \in Requests : q < r => rpc[q] # "idle"
    /\ \E tool \in BOOLEAN :
          IF tool
          THEN rpc' = [rpc EXCEPT ![r] = "download"] /\ UNCHANGED outcome
          ELSE /\ rpc' = [rpc EXCEPT ![r] = "done"]
               /\ outcome' = [outcome EXCEPT ![r] = "tool_missing"]
    /\ UNCHANGED <<now, last_update_time, wake, start_time, current_time,
                   calls, emitted, first>>
    /\ UNCHANGED <<qvars, dvars>>

\* stdout reached end-of-file and process.wait() returned rc; on rc = 0 the
\* latest file is looked up, renamed and muxed (all synchronous), then the
\* handler sleeps 5 seconds
DownloadExit(r) ==
    /\ rpc[r] = "download"
    /\ \E rc \in {0, 2}, found \in BOOLEAN :
          IF rc # 0
          THEN /\ rpc' = [rpc EXCEPT ![r] = "done"]
               /\ outcome' = [outcome EXCEPT ![r] = "download_failed"]
               /\ UNCHANGED wake
          ELSE IF ~found
          THEN /\ rpc' = [rpc EXCEPT ![r] = "done"]
               /\ outcome' = [outcome EXCEPT ![r] = "no_file"]
               /\ UNCHANGED wake
          ELSE /\ rpc' = [rpc EXCEPT ![r] = "settle"]
               /\ wake' = [wake EXCEPT ![r] = now + SettleDelay]
               /\ UNCHANGED outcome
    /\ UNCHANGED <<now, last_update_time, start_time, current_time, calls,
                   emitted, first>>
    /\ UNCHANGED <<qvars, dvars>>

\* after the sleep: "Uploading" is announced, the size is checked,
\* start_time = time.time() and send_document starts
UploadStart(r) ==
    /\ rpc[r] = "settle"
    /\ now >= wake[r]
    /\ \E fits \in BOOLEAN :
          IF fits
          THEN /\ rpc' = [rpc EXCEPT ![r] = "upload"]
               /\ start_time' = [start_time EXCEPT ![r] = now]
               /\ UNCHANGED outcome
          ELSE /\ rpc' = [rpc EXCEPT ![r] = "done"]
               /\ outcome' = [outcome EXCEPT ![r] = "too_big"]
               /\ UNCHANGED start_time
    /\ UNCHANGED <<now, last_update_time, wake, current_time, calls, emitted,
                   first>>
    /\ UNCHANGED <<qvars, dvars>>

\* ------------------------------------------------------------- progress
\* current_time = time.time()
\* if current_time - last_update_time >= 2:
\*     try:
\*         await message.edit_text(...)
\*         last_update_time = current_time
\*     except MessageNotModified: pass
Passes(t) == t - last_update_time >= MinInterval

Decision(r) ==
    IF calls[r] = 0
    THEN first \cup {[elapsed |-> now - start_time[r], emits |-> Passes(now)]}
    ELSE first

\* a callback whose test succeeds: it awaits the edit
ProgressEmit(r) ==
    /\ rpc[r] = "upload"
    /\ calls[r] < MaxCalls
    /\ Passes(now)
    /\ current_time' = [current_time EXCEPT ![r] = now]
    /\ calls' = [calls EXCEPT ![r] = @ + 1]
    /\ first' = Decision(r)
    /\ rpc' = [rpc EXCEPT ![r] = "editing"]
    /\ UNCHANGED <<now, last_update_time, wake, start_time, outcome, emitted>>
    /\ UNCHANGED <<qvars, dvars>>

\* a callback whose test fails: it returns at once
ProgressSkip(r) ==
    /\ rpc[r] = "upload"
    /\ calls[r] < MaxCalls
    /\ ~Passes(now)
    /\ current_time' = [current_time EXCEPT ![r] = now]
    /\ calls' = [calls EXCEPT ![r] = @ + 1]
    /\ first' = Decision(r)
    /\ UNCHANGED <<now, last_update_time, rpc, wake, start_time, outcome,
                   emitted>>
    /\ UNCHANGED <<qvars, dvars>>

\* the edit is accepted: last_update_time = current_time
EditOk(r) ==
    /\ rpc[r] = "editing"
    /\ last_update_time' = current_time[r]
    /\ emitted' = [emitted EXCEPT ![r] = Append(@, current_time[r])]
    /\ rpc' = [rpc EXCEPT ![r] = "upload"]
    /\ UNCHANGED <<now, wake, start_time, current_time, calls, outcome, first>>
    /\ UNCHANGED <<qvars, dvars>>

\* the edit is rejected as unchanged: except MessageNotModified: pass
EditNotModified(r) ==
    /\ rpc[r] = "editing"
    /\ rpc' = [rpc EXCEPT ![r] = "upload"]
    /\ UNCHANGED <<now, last_update_time, wake, start_time, current_time,
                   calls, outcome, emitted, first>>
    /\ UNCHANGED <<qvars, dvars>>

\* send_document returns, or raises (also for a callback that raised): the
\* handler reports and returns
UploadEnd(r) ==
    /\ rpc[r] \in {"upload", "editing"}
    /\ \E ok \in BOOLEAN :
          /\ rpc[r] = "editing" => ~ok
          /\ outcome' = [outcome EXCEPT
                            ![r] = IF ok THEN "uploaded" ELSE "upload_error"]
    /\ rpc' = [rpc EXCEPT ![r] = "done"]
    /\ UNCHANGED <<now, last_update_time, wake, start_time, current_time,
                   calls, emitted, first>>
    /\ UNCHANGED <<qvars, dvars>>

\* time passes
Tick ==
    /\ now < MaxTime
    /\ now' = now + 1
    /\ UNCHANGED <<last_update_time, rpc, wake, start_time, current_time,
                   calls, outcome, emitted, first>>
    /\ UNCHANGED <<qvars, dvars>>

PNext ==
    \/ \E r \in Requests :
          \/ Request(r)
          \/ DownloadExit(r)
          \/ UploadStart(r)
          \/ ProgressEmit(r)
          \/ ProgressSkip(r)
          \/ EditOk(r)
          \/ EditNotModified(r)
          \/ UploadEnd(r)
    \/ Tick

\* ---------------------------------------------------- safe_edit_message
\* ki.py, kot.py, rot.py and rc.py share one body; bot.py has no
\* "if message.text == text: return".
Scripts == {"ki", "bot"}

HasCompare(script) == script # "bot"

\* texts are numbered; InitialText is the text passed to reply_text
InitialText == 0
Texts == 0 .. MaxTexts

\* status_message = await message.reply_text(...): the Message object holds
\* the text it was created with; shown is what the chat displays.
SinkStart(script) ==
    [script |-> script, shown |-> InitialText, message_text |-> InitialText,
     spc |-> "idle", text |-> InitialText, x |-> 0, slept |-> 0,
     attempts |-> 0, result |-> "none", announces |-> 0]

\* safe_edit_message(message, text) up to its first await.  edit_text returns
\* the edited Message, which every caller discards: message.text stays what
\* reply_text returned.
Announce(t) ==
    /\ sink.spc = "idle"
    /\ sink.announces < MaxAnnounces
    /\ sink' = IF HasCompare(sink.script) /\ sink.message_text = t
               THEN [sink EXCEPT !.text = t, !.x = 0, !.slept = 0,
                                 !.attempts = 0, !.result = "skipped",
                                 !.announces = @ + 1]
               ELSE [sink EXCEPT !.text = t, !.x = 0, !.slept = 0,
                                 !.attempts = 0, !.result = "none",
                                 !.announces = @ + 1, !.spc = "try"]
    /\ UNCHANGED <<qvars, pvars, job, ass, mux, look, short, prog, enc, proc>>

\* Telegram answers an edit whose text is the displayed one with
\* MESSAGE_NOT_MODIFIED.
Accepted == sink.text # sink.shown

\* first "await message.edit_text(text)": accepted
EditAccepted ==
    /\ sink.spc = "try"
    /\ Accepted
    /\ sink' = [sink EXCEPT !.attempts = @ + 1, !.shown = sink.text,
                            !.result = "ok", !.spc = "idle"]
    /\ UNCHANGED <<qvars, pvars, job, ass, mux, look, short, prog, enc, proc>>

\* first edit_text raises FloodWait: "except FloodWait as e"
EditFloodWait ==
    /\ sink.spc = "try"
    /\ \E w \in 1 .. MaxWait :
          sink' = [sink EXCEPT !.attempts = @ + 1, !.x = w, !.spc = "sleep"]
    /\ UNCHANGED <<qvars, pvars, job, ass, mux, look, short, prog, enc, proc>>

\* first edit_text raises anything else (MessageNotModified, RPCError, ...):
\* no handler in safe_edit_message
EditRaises ==
    /\ sink.spc = "try"
    /\ sink' = [sink EXCEPT !.attempts = @ + 1, !.result = "raised",
                            !.spc = "idle"]
    /\ UNCHANGED <<qvars, pvars, job, ass, mux, look, short, prog, enc, proc>>

\* "await asyncio.sleep(e.x)"
FloodSleep ==
    /\ sink.spc = "sleep"
    /\ sink' = [sink EXCEPT !.slept = sink.x, !.spc = "retry"]
    /\ UNCHANGED <<qvars, pvars, job, ass, mux, look, short, prog, enc, proc>>

\* the second "await message.edit_text(text)", inside the except clause
RetryAccepted ==
    /\ sink.spc = "retry"
    /\ Accepted
    /\ sink' = [sink EXCEPT !.attempts = @ + 1, !.shown = sink.text,
                            !.result = "ok", !.spc = "idle"]
    /\ UNCHANGED <<qvars, pvars, job, ass, mux, look, short, prog, enc, proc>>

\* a variant of RetryRaises that goes back to sleep on a second FloodWait
RetryLoops ==
    /\ sink.spc = "retry"
    /\ \/ sink' = [sink EXCEPT !.attempts = @ + 1, !.result = "raised",
                               !.spc = "idle"]
       \/ \E w \in 1 .. MaxWait :
             sink' = [sink EXCEPT !.attempts = @ + 1, !.x = w,
                                  !.spc = "sleep"]
    /\ UNCHANGED <<qvars, pvars, job, ass, mux, look, short, prog, enc, proc>>

\* the second edit_text raises (FloodWait again or anything else): an
\* exception raised inside an except clause leaves the function
RetryRaises ==
    /\ sink.spc = "retry"
    /\ sink' = [sink EXCEPT !.attempts = @ + 1, !.result = "raised",
                            !.spc = "idle"]
    /\ UNCHANGED <<qvars, pvars, job, ass, mux, look, short, prog, enc, proc>>

SinkNext ==
    \/ \E t \in Texts : Announce(t)
    \/ EditAccepted
    \/ EditFloodWait
    \/ EditRaises
    \/ FloodSleep
    \/ RetryAccepted
    \/ RetryRaises

\* ------------------------------------------------- task body, in detail
\* ki.py task() (sign subtitles, no mirror) and kot.py download_anime
\* (mirror to rclone, no sign subtitles)
JobScripts == {"ki", "kot"}

\* a status text: which f-string produced it and the value interpolated
Msg(kind, body) == [kind |-> kind, body |-> body]

StderrTexts == {"e1", "e2"}

\* byte counts: hi * 1024**3 + lo with 0 <= lo < 1024**3 (Python integers
\* are unbounded; 2 * 1024**3 does not fit a 32-bit integer)
Bytes(hi, lo) == [hi |-> hi, lo |-> lo]

Sizes == {Bytes(h, l) : h \in 1 .. MaxGiB, l \in {0, 1, Giga - 1}}

Limit == Bytes(LimitGiB, 0)

GreaterThan(a, b) == a.hi > b.hi \/ (a.hi = b.hi /\ a.lo > b.lo)

\* a variant of Exceeds that also turns away a file of exactly the limit
ExceedsOrEquals(file_size) == ~GreaterThan(Limit, file_size)

\* "file_size > 2 * 1024 ** 3"
Exceeds(file_size) == GreaterThan(file_size, Limit)

\* what can go wrong inside auto_rename_with_anitopy
EnrichFaults == {"none", "parse", "rename", "lookup", "lookup_raises",
                 "image"}

\* a variant of AutoRename that lets os.rename and the catalog lookup raise
AutoRenamePropagates(fault) ==
    [raised |-> fault \in {"rename", "lookup_raises"},
     path |-> IF fault \in {"parse", "rename", "lookup_raises"}
              THEN "old" ELSE "new",
     thumbnail |-> fault = "none",
     title |-> fault \in {"none", "lookup", "image"},
     renamed |-> fault \notin {"parse", "rename"}]

\* auto_rename_with_anitopy: the whole body is inside try/except Exception.
\*   parse         : extract_anime_info yields no title
\*   rename        : os.rename raises
\*   lookup        : fetch_anilist_cover returns None twice
\*   lookup_raises : fetch_anilist_cover raises (only RequestException is
\*                   caught there), after the file was renamed
\*   image         : download_cover_image returns False
AutoRename(fault) ==
    [raised |-> FALSE,
     path |-> IF fault \in {"parse", "rename", "lookup_raises"}
              THEN "old" ELSE "new",
     thumbnail |-> fault = "none",
     title |-> fault \in {"none", "lookup", "image"},
     renamed |-> fault \notin {"parse", "rename"}]

JobStart(script) ==
    [script |-> script, jpc |-> "start", shown |-> Msg("starting", ""),
     lines |-> 0, returncode |-> -1, stderr |-> "", fault |-> "unset",
     enriched |-> FALSE, stale |-> FALSE, thumbnail_path |-> FALSE,
     file_size |-> Bytes(0, 0), gate |-> "none", delivered |-> FALSE,
     removed |-> FALSE, thumb_removed |-> FALSE, trace |-> <<>>,
     mishaps |-> {}, rejected |-> {}, latest_file |-> "none",
     input_file |-> "none", mux_returncode |-> -1, mux_stderr |-> "",
     sized |-> "none", sent |-> "none", deleted |-> "none",
     tool |-> "unchecked", last_edit |-> "none", failures_shown |-> 0,
     videos |-> {}]

Did(j, step) == [j EXCEPT !.trace = Append(@, step)]

Goto(j, p) == [j EXCEPT !.jpc = p]

Mishap(j, m) == [j EXCEPT !.mishaps = @ \cup {m}]

\* the texts that tell the user the task has failed
FailureKinds == {"tool_missing", "download_error", "no_file", "size_limit",
                 "upload_error", "unexpected"}

\* an awaited edit of the status message: accepted, or it raises and control
\* goes to the enclosing handler
Edit(j, text, okpc, handler) ==
    {[j EXCEPT !.shown = text, !.jpc = okpc, !.last_edit = "accepted",
               !.failures_shown = IF text.kind \in FailureKinds
                                  THEN @ + 1 ELSE @],
     [j EXCEPT !.rejected = @ \cup {text.kind}, !.jpc = handler,
               !.last_edit = "rejected"]}

Terminal == job.jpc \in {"done", "raised"}

\* a variant of JobToolCheck that reports the missing tool and goes on
JobToolCheckGoesOn ==
    /\ job.jpc = "start"
    /\ \E tool \in BOOLEAN :
          job' \in IF tool
                   THEN {Goto([job EXCEPT !.tool = "present"], "spawn")}
                   ELSE Edit([job EXCEPT !.tool = "missing"],
                             Msg("tool_missing", ""), "spawn",
                             "except_outer")
    /\ UNCHANGED <<qvars, pvars, sink, ass, mux, look, short, prog, enc, proc>>

\* "if not os.path.isfile("./aniDL")"
JobToolCheck ==
    /\ job.jpc = "start"
    /\ \E tool \in BOOLEAN :
          job' \in IF tool
                   THEN {Goto([job EXCEPT !.tool = "present"], "spawn")}
                   ELSE Edit([job EXCEPT !.tool = "missing"],
                             Msg("tool_missing", ""), "done",
                             "except_outer")
    /\ UNCHANGED <<qvars, pvars, sink, ass, mux, look, short, prog, enc, proc>>

\* "process = await asyncio.create_subprocess_exec(...)"
JobSpawn ==
    /\ job.jpc = "spawn"
    /\ job' \in {Goto(Did(job, "spawn"), "read"), Goto(job, "except_outer")}
    /\ UNCHANGED <<qvars, pvars, sink, ass, mux, look, short, prog, enc, proc>>

\* a line with "Progress:" is read and announced
JobReadLine ==
    /\ job.jpc = "read"
    /\ job.lines < MaxLines
    /\ job' \in Edit([job EXCEPT !.lines = @ + 1], Msg("progress", ""),
                     "read", "except_outer")
    /\ UNCHANGED <<qvars, pvars, sink, ass, mux, look, short, prog, enc, proc>>

\* "if not line: break"
JobEof ==
    /\ job.jpc = "read"
    /\ job' = Goto(job, "wait")
    /\ UNCHANGED <<qvars, pvars, sink, ass, mux, look, short, prog, enc, proc>>

\* "await process.wait()" and "if process.returncode == 0"
JobWait ==
    /\ job.jpc = "wait"
    /\ \E rc \in {0, 1} :
          job' = Goto(Did([job EXCEPT !.returncode = rc], "exit"),
                      IF rc = 0 THEN "scan" ELSE "stderr")
    /\ UNCHANGED <<qvars, pvars, sink, ass, mux, look, short, prog, enc, proc>>

\* a variant of JobDownloadFailed that announces the failure without stderr
JobDownloadFailedBare ==
    /\ job.jpc = "stderr"
    /\ \E e \in StderrTexts :
          job' \in Edit([job EXCEPT !.stderr = e], Msg("download_error", ""),
                        "done", "except_outer")
    /\ UNCHANGED <<qvars, pvars, sink, ass, mux, look, short, prog, enc, proc>>

\* the else branch: stderr is read, decoded and announced
JobDownloadFailed ==
    /\ job.jpc = "stderr"
    /\ \E e \in StderrTexts :
          job' \in Edit([job EXCEPT !.stderr = e], Msg("download_error", e),
                        "done", "except_outer")
    /\ UNCHANGED <<qvars, pvars, sink, ass, mux, look, short, prog, enc, proc>>

\* "latest_file = get_latest_file(VIDEO_DIR)" and "if latest_file"
JobScan ==
    /\ job.jpc = "scan"
    /\ \E found \in BOOLEAN :
          job' \in IF found
                   THEN {Goto(Did([job EXCEPT !.latest_file = "found",
                                              !.videos = {"found"}],
                                  "scan"), "enrich")}
                   ELSE Edit(Did(job, "scan"), Msg("no_file", ""), "done",
                             "except_outer")
    /\ UNCHANGED <<qvars, pvars, sink, ass, mux, look, short, prog, enc, proc>>

\* "latest_file, thumbnail_path, _ = auto_rename_with_anitopy(...)"
JobEnrich ==
    /\ job.jpc = "enrich"
    /\ \E fault \in EnrichFaults :
          LET r == AutoRename(fault)
              j == [Did(job, "enrich") EXCEPT
                       !.fault = fault,
                       !.videos = IF r.renamed THEN {"renamed"} ELSE @,
                       !.mishaps = IF fault = "none" THEN @
                                   ELSE @ \cup {"enrich"}]
          IN  job' = IF r.raised
                     THEN Goto(j, "except_outer")
                     ELSE Goto([j EXCEPT
                                   !.enriched = TRUE,
                                   !.latest_file = IF r.path = "new"
                                                   THEN "renamed" ELSE @,
                                   !.stale = r.path = "old" /\ r.renamed,
                                   !.thumbnail_path = r.thumbnail],
                               IF job.script = "ki" THEN "sign"
                               ELSE "chapters")
    /\ UNCHANGED <<qvars, pvars, sink, ass, mux, look, short, prog, enc, proc>>

\* ki.py: extract_sign_subtitles and add_sign_subtitles catch everything
\* and report by their return value, which the task ignores for the merge
JobSign ==
    /\ job.jpc = "sign"
    /\ \E result \in {"probe_missing", "extract_failed", "merged",
                      "merge_failed", "empty"} :
          /\ job.stale => result \in {"probe_missing", "extract_failed"}
          /\ job' = Goto(IF result \in {"merged", "empty"}
                         THEN Did(job, "sign")
                         ELSE Mishap(Did(job, "sign"), result),
                         "chapters")
    /\ UNCHANGED <<qvars, pvars, sink, ass, mux, look, short, prog, enc, proc>>

\* "if os.path.isfile(CHAPTERS_FILE)": no chapters file
JobNoChapters ==
    /\ job.jpc = "chapters"
    /\ job' = Goto(job, "sleep")
    /\ UNCHANGED <<qvars, pvars, sink, ass, mux, look, short, prog, enc, proc>>

\* mux_with_chapters: subprocess.run as it is, no try around it.
\*   ok      : returncode 0, latest_file = output_file
\*   exit    : returncode # 0, "await status_message.edit_text(...)"
\*   missing : mkvmerge cannot be launched, subprocess.run raises
\* The output is a second file, "<name>_muxed.mkv", next to the input; after
\* a non-zero exit (1 is a warning, 2 an error) it may or may not exist.
JobMux ==
    /\ job.jpc = "chapters"
    /\ \E result \in {"ok", "exit", "missing"} :
          /\ job.stale => result # "ok"
          /\ job' \in
               CASE result = "ok" ->
                      {Goto(Did([job EXCEPT !.input_file = job.latest_file,
                                            !.mux_returncode = 0,
                                            !.latest_file = "muxed",
                                            !.videos = @ \cup {"muxed"}],
                                "mux"), "sleep")}
                 [] result = "missing" ->
                      {Goto(Mishap(Did([job EXCEPT
                                           !.input_file = job.latest_file],
                                       "mux"), "muxer_missing"),
                            "except_outer")}
                 [] result = "exit" ->
                      UNION {Edit(Mishap(Did([job EXCEPT
                                      !.input_file = job.latest_file,
                                      !.mux_returncode = 1,
                                      !.mux_stderr = e,
                                      !.videos = @ \cup left],
                                      "mux"), "mux_exit"),
                                  Msg("mux_error", e), "sleep",
                                  "except_outer") :
                             e \in StderrTexts, left \in {{}, {"muxed"}}}
    /\ UNCHANGED <<qvars, pvars, sink, ass, mux, look, short, prog, enc, proc>>

\* a variant of JobSleep that goes straight to the deletion
JobSleepThenDelete ==
    /\ job.jpc = "sleep"
    /\ job' = Goto(job, "remove")
    /\ UNCHANGED <<qvars, pvars, sink, ass, mux, look, short, prog, enc, proc>>

\* "await asyncio.sleep(5)"
JobSleep ==
    /\ job.jpc = "sleep"
    /\ job' = Goto(job, "uploading")
    /\ UNCHANGED <<qvars, pvars, sink, ass, mux, look, short, prog, enc, proc>>

\* inner try: safe_edit_message(status_message, "Uploading to Telegram...")
JobUploading ==
    /\ job.jpc = "uploading"
    /\ job' \in Edit(Did(job, "upload"), Msg("uploading", ""), "size",
                     "except_upload")
    /\ UNCHANGED <<qvars, pvars, sink, ass, mux, look, short, prog, enc, proc>>

\* "file_size = os.path.getsize(latest_file)" raises when latest_file is the
\* path the file no longer has; otherwise the size gate
JobSize ==
    /\ job.jpc = "size"
    /\ \/ /\ job.stale
          /\ job' = Goto(job, "except_upload")
       \/ /\ ~job.stale
          /\ \E s \in Sizes :
                LET j == [job EXCEPT !.file_size = s,
                                     !.sized = job.latest_file] IN
                job' \in IF Exceeds(s)
                         THEN Edit([j EXCEPT !.gate = "over"],
                                   Msg("size_limit", ""), "done",
                                   "except_upload")
                         ELSE {Goto([j EXCEPT !.gate = "fits"], "send")}
    /\ UNCHANGED <<qvars, pvars, sink, ass, mux, look, short, prog, enc, proc>>

\* "await client.send_document(...)"
JobSend ==
    /\ job.jpc = "send"
    /\ job' \in {Goto(Did([job EXCEPT !.delivered = TRUE,
                                       !.sent = job.latest_file], "send"),
                      "complete"),
                 Goto(Did([job EXCEPT !.sent = job.latest_file], "send"),
                      "except_upload")}
    /\ UNCHANGED <<qvars, pvars, sink, ass, mux, look, short, prog, enc, proc>>

\* safe_edit_message(status_message, "Upload complete on Telegram!")
JobComplete ==
    /\ job.jpc = "complete"
    /\ job' \in Edit(job, Msg("upload_complete", ""),
                     IF job.script = "kot" THEN "mirror" ELSE "remove",
                     "except_upload")
    /\ UNCHANGED <<qvars, pvars, sink, ass, mux, look, short, prog, enc, proc>>

\* kot.py upload_to_rclone and generate_onedrive_share_link: only
\* CalledProcessError is caught, a launch failure raises.
\*   copy_failed   : upload_to_rclone returns False
\*   copy_missing  : rclone cannot be launched (copy)
\*   link_missing  : rclone cannot be launched (link)
\*   link_failed   : generate_onedrive_share_link returns None
\*   linked        : a share link is announced
JobMirror ==
    /\ job.jpc = "mirror"
    /\ \E result \in {"copy_failed", "copy_missing", "link_missing",
                      "link_failed", "linked"} :
          job' \in
            CASE result = "copy_failed" -> {Goto(Did(job, "mirror"), "remove")}
              [] result \in {"copy_missing", "link_missing"} ->
                   {Goto(Did(job, "mirror"), "except_upload")}
              [] result = "link_failed" ->
                   Edit(Did(job, "mirror"), Msg("link_failed", ""), "remove",
                        "except_upload")
              [] result = "linked" ->
                   Edit(Did(job, "mirror"), Msg("mirrored", ""), "remove",
                        "except_upload")
    /\ UNCHANGED <<qvars, pvars, sink, ass, mux, look, short, prog, enc, proc>>

\* "os.remove(latest_file)" and the removal of the thumbnail
JobRemove ==
    /\ job.jpc = "remove"
    /\ job' = Goto(Did([job EXCEPT !.removed = TRUE,
                                   !.deleted = job.latest_file,
                                   !.videos = @ \ {job.latest_file},
                                   !.thumb_removed = job.thumbnail_path],
                       "remove"), "done")
    /\ UNCHANGED <<qvars, pvars, sink, ass, mux, look, short, prog, enc, proc>>

\* a variant of JobExceptUpload that only logs
JobExceptUploadSilent ==
    /\ job.jpc = "except_upload"
    /\ job' = Goto(job, "done")
    /\ UNCHANGED <<qvars, pvars, sink, ass, mux, look, short, prog, enc, proc>>

\* inner "except Exception as e": announce "Error during upload"
JobExceptUpload ==
    /\ job.jpc = "except_upload"
    /\ job' \in Edit(job, Msg("upload_error", ""), "done", "except_outer")
    /\ UNCHANGED <<qvars, pvars, sink, ass, mux, look, short, prog, enc, proc>>

\* outer "except Exception as e": announce "An unexpected error occurred";
\* an exception raised here leaves the task body
JobExceptOuter ==
    /\ job.jpc = "except_outer"
    /\ job' \in Edit(job, Msg("unexpected", ""), "done", "raised")
    /\ UNCHANGED <<qvars, pvars, sink, ass, mux, look, short, prog, enc, proc>>

JobNext ==
    \/ JobToolCheck
    \/ JobSpawn
    \/ JobReadLine
    \/ JobEof
    \/ JobWait
    \/ JobDownloadFailed
    \/ JobScan
    \/ JobEnrich
    \/ JobSign
    \/ JobNoChapters
    \/ JobMux
    \/ JobSleep
    \/ JobUploading
    \/ JobSize
    \/ JobSend
    \/ JobComplete
    \/ JobMirror
    \/ JobRemove
    \/ JobExceptUpload
    \/ JobExceptOuter

\* ------------------------------------------------- sign subtitle stage
\* A line of the .ass file is a sequence of atoms; the atom "," is the field
\* separator, every other atom is a run of characters without a comma.
\* "keyword in field" is the presence of the keyword atom in the field.
style_keywords == {"BW Phone Bubble", "Text Date"}

effect_text_keywords == {"\\an", "\\fad", "\\pos", "\\fs"}

actor_keyword == "Sign"

Has(field, keyword) == \E i \in DOMAIN field : field[i] = keyword

RECURSIVE JoinFields(_)
JoinFields(fields) ==
    IF Len(fields) = 0 THEN <<>>
    ELSE IF Len(fields) = 1 THEN fields[1]
    ELSE fields[1] \o <<",">> \o JoinFields(Tail(fields))

\* the cues a subtitle file is made of here: the four fields the filter
\* looks at; whole = FALSE is a Dialogue line cut short after its name
Cues ==
    [style : {<<"Default">>, <<"Text Date">>},
     name : {<<>>, <<"Sign">>},
     effect : {<<>>, <<"\\fad">>},
     text : {<<"hello">>, <<"{", "\\pos", "}", "shop">>,
             <<"well", ",", "{", "\\an", "}", "yes">>},
     whole : {TRUE}]
    \cup {[style |-> <<"Default">>, name |-> <<"Sign">>, effect |-> <<>>,
           text |-> <<>>, whole |-> FALSE]}

\* "Dialogue: Layer,Start,End,Style,Name,MarginL,MarginR,MarginV,Effect,Text"
CueLine(c) ==
    IF c.whole
    THEN JoinFields(<<<<"Dialogue:", "0">>, <<"0:00:01.00">>,
                      <<"0:00:02.00">>, c.style, c.name, <<"0">>, <<"0">>,
                      <<"0">>, c.effect, c.text>>)
    ELSE JoinFields(<<<<"Dialogue:", "0">>, <<"0:00:01.00">>,
                      <<"0:00:02.00">>, c.style, c.name>>)

RECURSIVE CueLines(_)
CueLines(cues) ==
    IF cues = <<>> THEN <<>>
    ELSE <<CueLine(Head(cues))>> \o CueLines(Tail(cues))

RECURSIVE SeqsUpTo(_, _)
SeqsUpTo(S, n) ==
    IF n = 0 THEN {<<>>}
    ELSE LET shorter == SeqsUpTo(S, n - 1)
         IN  shorter \cup {Append(q, x) : q \in shorter, x \in S}

InfoPart == <<<<"[Script Info]">>, <<"Title:", "ep">>>>

FontsPart == <<<<"[Fonts]">>, <<"fontname:", "a.ttf">>>>

\* the file ffmpeg wrote: an optional [Script Info] part, an optional
\* [Events] header with its Format line, then the cues, then an optional
\* [Fonts] part
FileLines(info, events, fonts, cues) ==
    (IF info THEN InfoPart ELSE <<>>)
    \o (IF events THEN <<<<"[Events]">>, <<"Format:", "Layer">>>> ELSE <<>>)
    \o CueLines(cues)
    \o (IF fonts THEN FontsPart ELSE <<>>)

\* a variant of Split that splits at every comma
RECURSIVE SplitEvery(_, _)
SplitEvery(line, maxsplit) ==
    IF ~Has(line, ",") THEN <<line>>
    ELSE LET i == CHOOSE k \in DOMAIN line :
                      line[k] = "," /\ \A m \in 1 .. k - 1 : line[m] # ","
         IN  <<SubSeq(line, 1, i - 1)>>
             \o SplitEvery(SubSeq(line, i + 1, Len(line)), maxsplit)

\* line.split(",", maxsplit)
RECURSIVE Split(_, _)
Split(line, maxsplit) ==
    IF maxsplit = 0 \/ ~Has(line, ",") THEN <<line>>
    ELSE LET i == CHOOSE k \in DOMAIN line :
                      line[k] = "," /\ \A m \in 1 .. k - 1 : line[m] # ","
         IN  <<SubSeq(line, 1, i - 1)>>
             \o Split(SubSeq(line, i + 1, Len(line)), maxsplit - 1)

StartsWith(line, atom) == Len(line) > 0 /\ line[1] = atom

\* a variant of StartsSection that takes no line for a section header
StartsNoSection(line) == FALSE

\* line.startswith("[")
StartsSection(line) ==
    Len(line) > 0 /\ line[1] \in {"[Script Info]", "[Events]", "[Fonts]"}

\* the if / elif / elif chain on style, effect or text, and actor
IsSign(parts) ==
    LET style == parts[4]
        name == parts[5]
        effect == parts[9]
        text == parts[10]
    IN  \/ \E keyword \in style_keywords : Has(style, keyword)
        \/ \E keyword \in effect_text_keywords :
              Has(effect, keyword) \/ Has(text, keyword)
        \/ Has(name, actor_keyword)

FormatLine == <<"Format:", "Layer, Start, End, Style, Name, MarginL, MarginR, MarginV, Effect, Text">>

\* the "for line in lines" loop: the result is <<header, sign_lines>>
RECURSIVE FilterLines(_, _, _, _)
FilterLines(lines, in_events, header, sign_lines) ==
    IF lines = <<>> THEN <<header, sign_lines>>
    ELSE
      LET line == Head(lines)
          rest == Tail(lines)
      IN  IF StartsWith(line, "[Events]")
          THEN FilterLines(rest, TRUE, header \o <<line, FormatLine>>,
                           sign_lines)
          ELSE IF in_events /\ StartsWith(line, "Dialogue:")
          THEN LET parts == Split(line, MaxSplit)
               IN  IF Len(parts) < FieldCount
                   THEN FilterLines(rest, in_events, header, sign_lines)
                   ELSE IF IsSign(parts)
                   THEN FilterLines(rest, in_events, header,
                                    Append(sign_lines, line))
                   ELSE FilterLines(rest, in_events, header, sign_lines)
          ELSE IF StartsSection(line)
          THEN FilterLines(rest, FALSE, Append(header, line), sign_lines)
          ELSE IF ~in_events
          THEN FilterLines(rest, in_events, Append(header, line), sign_lines)
          ELSE FilterLines(rest, in_events, header, sign_lines)

\* characters of "\n".join(lines), an atom counted as one character
RECURSIVE JoinSize(_)
JoinSize(lines) ==
    IF lines = <<>> THEN 0
    ELSE Len(Head(lines)) + (IF Len(lines) > 1 THEN 1 ELSE 0)
         + JoinSize(Tail(lines))

\* f.write("\n".join(header)); if sign_lines: f.write("\n" + ...)
WrittenSize(header, sign_lines) ==
    JoinSize(header)
    + (IF sign_lines # <<>> THEN 1 + JoinSize(sign_lines) ELSE 0)

SubStart(info, events, fonts, cues) ==
    [info |-> info, events |-> events, fonts |-> fonts, cues |-> cues,
     lines |-> FileLines(info, events, fonts, cues), apc |-> "extract",
     filtered |-> FALSE, header |-> <<>>, sign_lines |-> <<>>,
     getsize |-> 0, merge_called |-> FALSE, container_changed |-> FALSE,
     sign_file_removed |-> FALSE]

\* ffmpeg fails or cannot be launched: extract_sign_subtitles returns False
SubExtractFails ==
    /\ ass.apc = "extract"
    /\ ass' = [ass EXCEPT !.apc = "done"]
    /\ UNCHANGED <<qvars, pvars, sink, job, mux, look, short, prog, enc, proc>>

\* extract_sign_subtitles: ffmpeg wrote the file, it is read, filtered and
\* written back; returns True
SubFilter ==
    /\ ass.apc = "extract"
    /\ LET r == FilterLines(ass.lines, FALSE, <<>>, <<>>)
       IN  ass' = [ass EXCEPT !.filtered = TRUE, !.header = r[1],
                              !.sign_lines = r[2],
                              !.getsize = WrittenSize(r[1], r[2]),
                              !.apc = "getsize"]
    /\ UNCHANGED <<qvars, pvars, sink, job, mux, look, short, prog, enc, proc>>

\* "if os.path.getsize(sign_sub_file) > 0": add_sign_subtitles, whose
\* mkvmerge run replaces the container when it succeeds, then os.remove
SubMerge ==
    /\ ass.apc = "getsize"
    /\ ass.getsize > 0
    /\ \E merged \in BOOLEAN :
          ass' = [ass EXCEPT !.merge_called = TRUE,
                             !.container_changed = merged,
                             !.sign_file_removed = TRUE, !.apc = "done"]
    /\ UNCHANGED <<qvars, pvars, sink, job, mux, look, short, prog, enc, proc>>

\* "else: os.remove(sign_sub_file)"
SubDiscard ==
    /\ ass.apc = "getsize"
    /\ ~(ass.getsize > 0)
    /\ ass' = [ass EXCEPT !.sign_file_removed = TRUE, !.apc = "done"]
    /\ UNCHANGED <<qvars, pvars, sink, job, mux, look, short, prog, enc, proc>>

SubNext ==
    \/ SubExtractFails
    \/ SubFilter
    \/ SubMerge
    \/ SubDiscard

\* ------------------------------------------------- add_sign_subtitles
\* file contents are numbered; Absent is a path with no file
Absent == 0
Contents == 1 .. MaxContents

\* what mkvmerge leaves in temp_output when it gives up half way
Partial == -1

\* the container made of input_file with the track of sign_sub_file
Merged(container, track) == (MaxContents + 1) * container + track

MergeStart(container, track) ==
    [fs |-> [input_file |-> container, temp_output |-> Absent,
             sign_sub_file |-> track],
     original |-> container, mpc |-> "exists", returncode |-> -1,
     made_temp |-> FALSE, returned |-> "none"]

\* "if not os.path.exists(sign_sub_file): return False"
MergeCheckSub ==
    /\ mux.mpc = "exists"
    /\ mux' = IF mux.fs.sign_sub_file = Absent
              THEN [mux EXCEPT !.returned = "False", !.mpc = "done"]
              ELSE [mux EXCEPT !.mpc = "run"]
    /\ UNCHANGED <<qvars, pvars, sink, job, ass, look, short, prog, enc, proc>>

\* subprocess.run(command, ...): mkvmerge cannot be launched
MergeUnlaunchable ==
    /\ mux.mpc = "run"
    /\ mux' = [mux EXCEPT !.mpc = "except"]
    /\ UNCHANGED <<qvars, pvars, sink, job, ass, look, short, prog, enc, proc>>

\* subprocess.run(command, ...): mkvmerge exits, with or without having
\* written temp_output
MergeRun ==
    /\ mux.mpc = "run"
    /\ \E rc \in {0, 1, 2}, wrote \in BOOLEAN :
          /\ rc = 0 => wrote
          /\ mux' = [mux EXCEPT
                        !.returncode = rc,
                        !.made_temp = wrote,
                        !.fs.temp_output =
                            IF ~wrote THEN Absent
                            ELSE IF rc = 2 THEN Partial
                            ELSE Merged(mux.fs.input_file,
                                        mux.fs.sign_sub_file),
                        !.mpc = IF rc = 0 THEN "replace" ELSE "remove"]
    /\ UNCHANGED <<qvars, pvars, sink, job, ass, look, short, prog, enc, proc>>

\* a variant of MergeFailed that returns without removing temp_output
MergeFailedKeepsTemp ==
    /\ mux.mpc = "remove"
    /\ mux' = [mux EXCEPT !.returned = "False", !.mpc = "done"]
    /\ UNCHANGED <<qvars, pvars, sink, job, ass, look, short, prog, enc, proc>>

\* "if result.returncode != 0: os.remove(temp_output); return False";
\* os.remove raises when there is no such file
MergeFailed ==
    /\ mux.mpc = "remove"
    /\ mux' = IF mux.fs.temp_output = Absent
              THEN [mux EXCEPT !.mpc = "except"]
              ELSE [mux EXCEPT !.fs.temp_output = Absent,
                               !.returned = "False", !.mpc = "done"]
    /\ UNCHANGED <<qvars, pvars, sink, job, ass, look, short, prog, enc, proc>>

\* "os.replace(temp_output, input_file); return True"
MergeReplace ==
    /\ mux.mpc = "replace"
    /\ mux' = [mux EXCEPT !.fs.input_file = mux.fs.temp_output,
                          !.fs.temp_output = Absent,
                          !.returned = "True", !.mpc = "done"]
    /\ UNCHANGED <<qvars, pvars, sink, job, ass, look, short, prog, enc, proc>>

\* os.replace raises (the file is in use, the disk is read-only, ...)
MergeReplaceRaises ==
    /\ mux.mpc = "replace"
    /\ mux' = [mux EXCEPT !.mpc = "except"]
    /\ UNCHANGED <<qvars, pvars, sink, job, ass, look, short, prog, enc, proc>>

\* "except Exception: if os.path.exists(temp_output): os.remove(temp_output)"
MergeExcept ==
    /\ mux.mpc = "except"
    /\ mux' = [mux EXCEPT !.fs.temp_output = Absent, !.returned = "False",
                          !.mpc = "done"]
    /\ UNCHANGED <<qvars, pvars, sink, job, ass, look, short, prog, enc, proc>>

MergeNext ==
    \/ MergeCheckSub
    \/ MergeUnlaunchable
    \/ MergeRun
    \/ MergeFailed
    \/ MergeReplace
    \/ MergeReplaceRaises
    \/ MergeExcept

\* ------------------------------------------------- fetch_anilist_cover
\* what one requests.post can bring:
\*   transport : requests.post raises a RequestException
\*   status    : a response whose status_code is not 200
\*   url       : 200, data.Media.coverImage.large holds a URL
\*   missing   : 200, a key of the chain is not in the body
\*   null      : 200, "Media" or "coverImage" is in the body with value null
\*   badjson   : 200, the body is not JSON
Responses == {"transport", "status", "url", "missing", "null", "badjson"}

LookupStart ==
    [lpc |-> "idle", lookup |-> 0, attempts |-> 0, last |-> "none",
     slept |-> 0, results |-> <<>>, hist |-> <<>>]

\* "cover_url = fetch_anilist_cover(anime_title)"
LookupFirst ==
    /\ look.lpc = "idle"
    /\ look' = [look EXCEPT !.lookup = 1, !.lpc = "request"]
    /\ UNCHANGED <<qvars, pvars, sink, job, ass, mux, short, prog, enc, proc>>

Heard(l, response) ==
    [l EXCEPT !.attempts = @ + 1, !.last = response, !.slept = 0,
              !.hist = Append(@, response)]

Returns(l, value) ==
    [l EXCEPT !.results = Append(@, value), !.lpc = "returned"]

\* one turn of "for _ in range(retries)": requests.post and what follows.
\* response.json() on a body that is not JSON raises JSONDecodeError, a
\* RequestException in recent requests and a plain ValueError before.
LookupRequest ==
    /\ look.lpc = "request"
    /\ look.attempts < retries
    /\ \E response \in Responses :
          look' \in
            CASE response = "transport" ->
                   {[Heard(look, response) EXCEPT !.lpc = "sleep"]}
              [] response = "status" -> {Heard(look, response)}
              [] response = "url" -> {Returns(Heard(look, response), "url")}
              [] response = "missing" ->
                   {Returns(Heard(look, response), "None")}
              [] response = "null" ->
                   {Returns(Heard(look, response), "raised")}
              [] response = "badjson" ->
                   {[Heard(look, response) EXCEPT !.lpc = "sleep"],
                    Returns(Heard(look, response), "raised")}
    /\ UNCHANGED <<qvars, pvars, sink, job, ass, mux, short, prog, enc, proc>>

\* "time.sleep(2)" in the except clause
LookupSleep ==
    /\ look.lpc = "sleep"
    /\ look' = [look EXCEPT !.slept = Backoff, !.lpc = "request"]
    /\ UNCHANGED <<qvars, pvars, sink, job, ass, mux, short, prog, enc, proc>>

\* the for loop is exhausted: "return None"
LookupExhausted ==
    /\ look.lpc = "request"
    /\ look.attempts = retries
    /\ look' = Returns(look, "None")
    /\ UNCHANGED <<qvars, pvars, sink, job, ass, mux, short, prog, enc, proc>>

\* a variant of LookupReturned that runs the fallback after every empty
\* lookup
LookupReturnedAgain ==
    /\ look.lpc = "returned"
    /\ look' = IF look.results[Len(look.results)] = "None"
               THEN [look EXCEPT !.lookup = @ + 1, !.attempts = 0,
                                 !.last = "none", !.slept = 0,
                                 !.lpc = "request"]
               ELSE [look EXCEPT !.lpc = "done"]
    /\ UNCHANGED <<qvars, pvars, sink, job, ass, mux, short, prog, enc, proc>>

\* auto_rename_with_anitopy after a lookup: "if not cover_url" after the
\* first one runs the fallback lookup; after the second, or after a URL or
\* an exception, the cover part is over
LookupReturned ==
    /\ look.lpc = "returned"
    /\ look' = IF look.lookup = 1 /\ look.results[1] = "None"
               THEN [look EXCEPT !.lookup = 2, !.attempts = 0,
                                 !.last = "none", !.slept = 0,
                                 !.lpc = "request"]
               ELSE [look EXCEPT !.lpc = "done"]
    /\ UNCHANGED <<qvars, pvars, sink, job, ass, mux, short, prog, enc, proc>>

LookupNext ==
    \/ LookupFirst
    \/ LookupRequest
    \/ LookupSleep
    \/ LookupExhausted
    \/ LookupReturned

\* ------------------------------------------------- shorten_anime_name
\* a title is a sequence of characters
TitleChars == {"a", " ", ":", "|"}

LongTitle == [i \in 1 .. LongTitleLength |-> "a"]

Titles == SeqsUpTo(TitleChars, MaxTitle) \cup {LongTitle}

Bounds == (0 .. MaxBound) \cup {DefaultBound}

Ellipsis == <<".", ".", ".">>

\* re.split(r'[:|]', name)[0]
RECURSIVE FirstPart(_)
FirstPart(name) ==
    IF name = <<>> \/ Head(name) \in {":", "|"} THEN <<>>
    ELSE <<Head(name)>> \o FirstPart(Tail(name))

RECURSIVE LStrip(_)
LStrip(str) ==
    IF str # <<>> /\ Head(str) = " " THEN LStrip(Tail(str)) ELSE str

RECURSIVE RStrip(_)
RStrip(str) ==
    IF str # <<>> /\ str[Len(str)] = " "
    THEN RStrip(SubSeq(str, 1, Len(str) - 1)) ELSE str

\* str.strip()
Strip(str) == RStrip(LStrip(str))

\* str[:n]; a negative n counts from the end
UpTo(str, n) ==
    IF n >= 0 THEN SubSeq(str, 1, IF n > Len(str) THEN Len(str) ELSE n)
    ELSE SubSeq(str, 1, IF Len(str) + n < 0 THEN 0 ELSE Len(str) + n)

\* a variant of shorten_anime_name that keeps one character too many
shorten_anime_name_long(name, max_length) ==
    IF Len(name) <= max_length THEN name
    ELSE LET shortened_name == Strip(FirstPart(name))
         IN  IF Len(shortened_name) > max_length
             THEN UpTo(shortened_name, max_length - EllipsisLength + 1)
                  \o Ellipsis
             ELSE shortened_name

shorten_anime_name(name, max_length) ==
    IF Len(name) <= max_length THEN name
    ELSE LET shortened_name == Strip(FirstPart(name))
         IN  IF Len(shortened_name) > max_length
             THEN UpTo(shortened_name, max_length - EllipsisLength)
                  \o Ellipsis
             ELSE shortened_name

ShortenStart(name, max_length) ==
    [name |-> name, max_length |-> max_length, called |-> FALSE,
     result |-> <<>>]

Shorten ==
    /\ ~short.called
    /\ short' = [short EXCEPT
                    !.called = TRUE,
                    !.result = shorten_anime_name(short.name,
                                                  short.max_length)]
    /\ UNCHANGED <<qvars, pvars, sink, job, ass, mux, look, prog, enc, proc>>

ShortenNext == Shorten

\* ------------------------------------------------------------- progress
\* ki.py / kot.py / rot.py / rc.py / bot.py progress(current, total, ...),
\* the figures of one sample that passed the two-second gate:
\*     elapsed_time = current_time - start_time
\*     speed = current / elapsed_time if elapsed_time > 0 else 0
\*     eta = (total - current) / speed if speed > 0 else 0
\*     progress_percentage = (current / total) * 100
\* A quotient is kept exact, as numerator n over denominator d > 0; d = 0
\* stands for the ZeroDivisionError of a division by zero.
Ratio(n, d) == [n |-> n, d |-> d]

Zero == Ratio(0, 1)

ZeroDivisionError == Ratio(0, 0)

\* a / b of two quotients
TrueDiv(a, b) ==
    IF b.n = 0 THEN ZeroDivisionError
    ELSE IF b.n > 0 THEN Ratio(a.n * b.d, a.d * b.n)
    ELSE Ratio(-(a.n * b.d), a.d * (-b.n))

\* faulty variant of Speed: the guard admits an elapsed time of zero
SpeedAtZero(current, elapsed_time) ==
    IF elapsed_time >= 0
    THEN TrueDiv(Ratio(current, 1), Ratio(elapsed_time, 1))
    ELSE Zero

\* speed = current / elapsed_time if elapsed_time > 0 else 0
Speed(current, elapsed_time) ==
    IF elapsed_time > 0
    THEN TrueDiv(Ratio(current, 1), Ratio(elapsed_time, 1))
    ELSE Zero

\* eta = (total - current) / speed if speed > 0 else 0
Eta(current, total, speed) ==
    IF speed.n > 0
    THEN TrueDiv(Ratio(total - current, 1), speed)
    ELSE Zero

Samples == 0 .. MaxSample

\* the clock may step back between start_time and the sample
Elapsed == (0 - MaxSample) .. MaxSample

ProgressStart(current, total, elapsed_time) ==
    [ppc |-> "speed", current |-> current, total |-> total,
     elapsed_time |-> elapsed_time, speed |-> Zero, eta |-> Zero,
     raised |-> "none"]

ProgressSpeed ==
    /\ prog.ppc = "speed"
    /\ LET speed == Speed(prog.current, prog.elapsed_time)
       IN prog' = IF speed = ZeroDivisionError
                  THEN [prog EXCEPT !.ppc = "raised", !.raised = "speed"]
                  ELSE [prog EXCEPT !.ppc = "eta", !.speed = speed]
    /\ UNCHANGED <<qvars, pvars, sink, job, ass, mux, look, short, enc, proc>>

ProgressEta ==
    /\ prog.ppc = "eta"
    /\ LET eta == Eta(prog.current, prog.total, prog.speed)
       IN prog' = IF eta = ZeroDivisionError
                  THEN [prog EXCEPT !.ppc = "raised", !.raised = "eta"]
                  ELSE [prog EXCEPT !.ppc = "percentage", !.eta = eta]
    /\ UNCHANGED <<qvars, pvars, sink, job, ass, mux, look, short, enc, proc>>

\* current / total, twice: the percentage and the bar. A total of 0 raises
\* ZeroDivisionError, which the except clause (MessageNotModified only) does
\* not catch.
ProgressPercentage ==
    /\ prog.ppc = "percentage"
    /\ prog' = IF TrueDiv(Ratio(prog.current, 1), Ratio(prog.total, 1))
                    = ZeroDivisionError
               THEN [prog EXCEPT !.ppc = "raised", !.raised = "percentage"]
               ELSE [prog EXCEPT !.ppc = "edit"]
    /\ UNCHANGED <<qvars, pvars, sink, job, ass, mux, look, short, enc, proc>>

\* await message.edit_text(...); MessageNotModified is passed over
ProgressEdit ==
    /\ prog.ppc = "edit"
    /\ prog' = [prog EXCEPT !.ppc = "done"]
    /\ UNCHANGED <<qvars, pvars, sink, job, ass, mux, look, short, enc, proc>>

ProgressNext ==
    \/ ProgressSpeed
    \/ ProgressEta
    \/ ProgressPercentage
    \/ ProgressEdit

\* ------------------------------------------------- task body of mkv.py
\* handle_message.task and handle_file_upload.task:
\*     try:
\*         file_path = download...;  (handle_message: if not file_path: return)
\*         output_file = f"{os.path.splitext(file_path)[0]}_encoded.mkv"
\*         encode_video(file_path, output_file, progress)
\*         output_file, thumbnail = auto_rename_with_anitopy(output_file)
\*         progress.edit("Uploading..."); client.send_document(...)
\*         progress.edit("Done!")
\*     except Exception as e: progress.edit(f"Error: {e}")
\*     finally: cleanup_files(file_path, output_file, thumbnail)
\* bound is the set of the task's locals that have been assigned, files the
\* set of files the task has created and not removed.
EncHandlers == {"handle_message", "handle_file_upload"}

EncLocals == {"file_path", "output_file", "thumbnail"}

EncStart(handler) ==
    [handler |-> handler, epc |-> "download", bound |-> {}, files |-> {},
     file_path |-> "none", output_file |-> "none", thumbnail |-> "none",
     failed |-> "none", cleanup |-> "none", raised |-> "none"]

EncGoto(e, p) == [e EXCEPT !.epc = p]

\* an exception inside the try block: the except clause is next
EncFail(e, stage) == [e EXCEPT !.epc = "except", !.failed = stage]

\* handle_message: download_video_with_actual_name catches everything and
\* returns the path or None ("if not file_path: return", then finally).
\* handle_file_upload: message.download returns the path or None, or raises.
\* A download that fails may leave the part it has written.
EncDownload ==
    /\ enc.epc = "download"
    /\ \E result \in {"saved", "none", "raises"}, partial \in BOOLEAN :
          /\ result = "raises" => enc.handler = "handle_file_upload"
          /\ result = "saved" => ~partial
          /\ LET e == [enc EXCEPT
                          !.files = IF partial THEN {"partial"} ELSE @]
             IN enc' =
               CASE result = "saved" ->
                      [e EXCEPT !.epc = "encode",
                                !.bound = @ \cup {"file_path"},
                                !.file_path = "input",
                                !.files = @ \cup {"input"}]
                 [] result = "none" ->
                      IF enc.handler = "handle_message"
                      THEN [e EXCEPT !.epc = "finally",
                                     !.failed = "download",
                                     !.bound = @ \cup {"file_path"}]
                      ELSE [EncFail(e, "download") EXCEPT
                               !.bound = @ \cup {"file_path"}]
                 [] result = "raises" -> EncFail(e, "download")
    /\ UNCHANGED <<qvars, pvars, sink, job, ass, mux, look, short, prog, proc>>

\* output_file is assigned, then encode_video: ffmpeg exits 0, or it exits
\* non-zero or cannot be launched (RuntimeError / OSError), with or without
\* an output file written so far
EncEncode ==
    /\ enc.epc = "encode"
    /\ \E ok \in BOOLEAN, written \in BOOLEAN :
          /\ ok => written
          /\ LET e == [enc EXCEPT
                          !.bound = @ \cup {"output_file"},
                          !.output_file = "encoded",
                          !.files = IF written THEN @ \cup {"encoded"} ELSE @]
             IN enc' = IF ok THEN EncGoto(e, "rename")
                       ELSE EncFail(e, "encode")
    /\ UNCHANGED <<qvars, pvars, sink, job, ass, mux, look, short, prog, proc>>

\* mkv.py auto_rename_with_anitopy catches everything, and so do the lookup
\* and the image download it calls after os.rename.
\*   parse  : nothing parsed, or os.rename raises: (file_path, None)
\*   plain  : renamed, no cover: (new_file_path, None)
\*   cover  : renamed, cover saved: (new_file_path, thumbnail_path)
EncRename ==
    /\ enc.epc = "rename"
    /\ \E result \in {"parse", "plain", "cover"} :
          enc' = [enc EXCEPT
                    !.epc = "uploading",
                    !.bound = @ \cup {"thumbnail"},
                    !.output_file = IF result = "parse" THEN @ ELSE "renamed",
                    !.thumbnail = IF result = "cover" THEN "cover" ELSE "none",
                    !.files = IF result = "parse" THEN @
                              ELSE (@ \ {"encoded"}) \cup {"renamed"}
                                   \cup (IF result = "cover" THEN {"cover"}
                                         ELSE {})]
    /\ UNCHANGED <<qvars, pvars, sink, job, ass, mux, look, short, prog, proc>>

\* progress.edit("Uploading..."), client.send_document(...),
\* progress.edit("Done!"): each returns or raises
EncUpload ==
    /\ enc.epc \in {"uploading", "send", "done_edit"}
    /\ \E ok \in BOOLEAN :
          enc' = IF ok
                 THEN EncGoto(enc, CASE enc.epc = "uploading" -> "send"
                                     [] enc.epc = "send" -> "done_edit"
                                     [] enc.epc = "done_edit" -> "finally")
                 ELSE EncFail(enc, enc.epc)
    /\ UNCHANGED <<qvars, pvars, sink, job, ass, mux, look, short, prog, proc>>

\* except Exception as e: progress.edit(f"Error: {e}"); whether the edit
\* returns or raises, the finally clause is next
EncExcept ==
    /\ enc.epc = "except"
    /\ \E ok \in BOOLEAN :
          enc' = [enc EXCEPT !.epc = "finally",
                             !.raised = IF ok THEN "none" ELSE "edit"]
    /\ UNCHANGED <<qvars, pvars, sink, job, ass, mux, look, short, prog, proc>>

\* finally: cleanup_files(file_path, output_file, thumbnail).  Reading a
\* local that was never assigned raises UnboundLocalError before the call
\* is made; otherwise every path that exists is removed.
EncCleanup ==
    /\ enc.epc = "finally"
    /\ enc' = IF enc.bound = EncLocals
              THEN [enc EXCEPT
                      !.epc = "ended",
                      !.cleanup = "called",
                      !.files = @ \ {enc.file_path, enc.output_file,
                                     enc.thumbnail}]
              ELSE [enc EXCEPT !.epc = "ended",
                               !.cleanup = "unbound",
                               !.raised = "UnboundLocalError"]
    /\ UNCHANGED <<qvars, pvars, sink, job, ass, mux, look, short, prog, proc>>

EncNext ==
    \/ EncDownload
    \/ EncEncode
    \/ EncRename
    \/ EncUpload
    \/ EncExcept
    \/ EncCleanup

\* ------------------------------------------------ the download's pipes
\* ki.py task (kot.py, rot.py, rc.py, bot.py alike):
\*     process = await asyncio.create_subprocess_exec(
\*         *command, stdout=subprocess.PIPE, stderr=subprocess.PIPE)
\*     while True:
\*         line = await process.stdout.readline()
\*         if not line: break
\*         ...
\*     await process.wait()
\*     if process.returncode == 0: ...
\*     else: stderr = (await process.stderr.read()).decode()
\* Data is counted in chunks of 64 KiB.  The event loop moves what the child
\* writes from the OS pipe into the StreamReader of the stream, and pauses
\* reading the pipe once the StreamReader holds more than twice its limit;
\* a stream nobody reads therefore takes ReaderChunks + PipeChunks chunks,
\* and the child's next write to it blocks.
Capacity == ReaderChunks + PipeChunks

ProcStart(out, err) ==
    [out_left |-> out, err_left |-> err, pending |-> "none",
     child |-> "running", status |-> 0, out_buf |-> 0, err_buf |-> 0,
     tpc |-> "readline", lines |-> 0, eof |-> FALSE, returncode |-> -1,
     stderr |-> -1]

\* the child comes to its next write: to stdout or to stderr
ChildNext ==
    /\ proc.child = "running"
    /\ proc.pending = "none"
    /\ \E stream \in {"out", "err"} :
          /\ stream = "out" => proc.out_left > 0
          /\ stream = "err" => proc.err_left > 0
          /\ proc' = [proc EXCEPT !.pending = stream]
    /\ UNCHANGED <<qvars, pvars, sink, job, ass, mux, look, short, prog, enc>>

\* the write is accepted when the stream has room, and blocks otherwise
ChildWrite ==
    /\ proc.child = "running"
    /\ \/ /\ proc.pending = "out"
          /\ proc.out_buf < Capacity
          /\ proc' = [proc EXCEPT !.pending = "none", !.out_left = @ - 1,
                                  !.out_buf = @ + 1]
       \/ /\ proc.pending = "err"
          /\ proc.err_buf < Capacity
          /\ proc' = [proc EXCEPT !.pending = "none", !.err_left = @ - 1,
                                  !.err_buf = @ + 1]
    /\ UNCHANGED <<qvars, pvars, sink, job, ass, mux, look, short, prog, enc>>

\* all writes were accepted: the child exits, which closes both pipes
ChildExit ==
    /\ proc.child = "running"
    /\ proc.pending = "none"
    /\ proc.out_left = 0 /\ proc.err_left = 0
    /\ \E code \in {0, 1} :
          proc' = [proc EXCEPT !.child = "exited", !.status = code]
    /\ UNCHANGED <<qvars, pvars, sink, job, ass, mux, look, short, prog, enc>>

\* "line = await process.stdout.readline()" returns a line
ReadLine ==
    /\ proc.tpc = "readline"
    /\ proc.out_buf > 0
    /\ proc' = [proc EXCEPT !.out_buf = @ - 1, !.lines = @ + 1]
    /\ UNCHANGED <<qvars, pvars, sink, job, ass, mux, look, short, prog, enc>>

\* readline returns b"" at end-of-stream: "if not line: break"
ReadEof ==
    /\ proc.tpc = "readline"
    /\ proc.out_buf = 0
    /\ proc.child = "exited"
    /\ proc' = [proc EXCEPT !.eof = TRUE, !.tpc = "wait"]
    /\ UNCHANGED <<qvars, pvars, sink, job, ass, mux, look, short, prog, enc>>

\* "await process.wait()" returns and process.returncode is tested
ProcWait ==
    /\ proc.tpc = "wait"
    /\ proc.child = "exited"
    /\ proc' = [proc EXCEPT !.returncode = proc.status,
                            !.tpc = IF proc.status = 0 THEN "done"
                                    ELSE "stderr"]
    /\ UNCHANGED <<qvars, pvars, sink, job, ass, mux, look, short, prog, enc>>

\* "stderr = (await process.stderr.read()).decode()"
ReadStderr ==
    /\ proc.tpc = "stderr"
    /\ proc' = [proc EXCEPT !.stderr = proc.err_buf, !.err_buf = 0,
                            !.tpc = "done"]
    /\ UNCHANGED <<qvars, pvars, sink, job, ass, mux, look, short, prog, enc>>

ProcNext ==
    \/ ChildNext
    \/ ChildWrite
    \/ ChildExit
    \/ ReadLine
    \/ ReadEof
    \/ ProcWait
    \/ ReadStderr

DInit ==
    /\ sink = SinkStart("ki")
    /\ job = JobStart("ki")
    /\ ass = SubStart(FALSE, FALSE, FALSE, <<>>)
    /\ mux = MergeStart(1, Absent)
    /\ look = LookupStart
    /\ short = ShortenStart(<<>>, DefaultBound)
    /\ prog = ProgressStart(0, 1, 0)
    /\ enc = EncStart("handle_message")
    /\ proc = ProcStart(0, 0)

Init == variant \in Variants /\ QInit /\ PInit /\ DInit

PipeInit == variant = "kot" /\ QInit /\ PInit /\ DInit

SinkInit ==
    /\ variant = "kot" /\ QInit /\ PInit
    /\ \E script \in Scripts : sink = SinkStart(script)
    /\ job = JobStart("ki")
    /\ ass = SubStart(FALSE, FALSE, FALSE, <<>>)
    /\ mux = MergeStart(1, Absent)
    /\ look = LookupStart
    /\ short = ShortenStart(<<>>, DefaultBound)
    /\ prog = ProgressStart(0, 1, 0)
    /\ enc = EncStart("handle_message")
    /\ proc = ProcStart(0, 0)

SpecSink == SinkInit /\ [][SinkNext]_vars

JobInit ==
    /\ variant = "kot" /\ QInit /\ PInit
    /\ sink = SinkStart("ki")
    /\ \E script \in JobScripts : job = JobStart(script)
    /\ ass = SubStart(FALSE, FALSE, FALSE, <<>>)
    /\ mux = MergeStart(1, Absent)
    /\ look = LookupStart
    /\ short = ShortenStart(<<>>, DefaultBound)
    /\ prog = ProgressStart(0, 1, 0)
    /\ enc = EncStart("handle_message")
    /\ proc = ProcStart(0, 0)

SpecJob == JobInit /\ [][JobNext]_vars

SubInit ==
    /\ variant = "kot" /\ QInit /\ PInit
    /\ sink = SinkStart("ki")
    /\ job = JobStart("ki")
    /\ \E info \in BOOLEAN, events \in BOOLEAN, fonts \in BOOLEAN,
          cues \in SeqsUpTo(Cues, MaxCues) :
          ass = SubStart(info, events, fonts, cues)
    /\ mux = MergeStart(1, Absent)
    /\ look = LookupStart
    /\ short = ShortenStart(<<>>, DefaultBound)
    /\ prog = ProgressStart(0, 1, 0)
    /\ enc = EncStart("handle_message")
    /\ proc = ProcStart(0, 0)

SpecSub == SubInit /\ [][SubNext]_vars

MergeInit ==
    /\ variant = "kot" /\ QInit /\ PInit
    /\ sink = SinkStart("ki")
    /\ job = JobStart("ki")
    /\ ass = SubStart(FALSE, FALSE, FALSE, <<>>)
    /\ \E container \in Contents, track \in Contents \cup {Absent} :
          mux = MergeStart(container, track)
    /\ look = LookupStart
    /\ short = ShortenStart(<<>>, DefaultBound)
    /\ prog = ProgressStart(0, 1, 0)
    /\ enc = EncStart("handle_message")
    /\ proc = ProcStart(0, 0)

SpecMerge == MergeInit /\ [][MergeNext]_vars

LookupInit == variant = "kot" /\ QInit /\ PInit /\ DInit

SpecLookup == LookupInit /\ [][LookupNext]_vars

ShortenInit ==
    /\ variant = "kot" /\ QInit /\ PInit
    /\ sink = SinkStart("ki")
    /\ job = JobStart("ki")
    /\ ass = SubStart(FALSE, FALSE, FALSE, <<>>)
    /\ mux = MergeStart(1, Absent)
    /\ look = LookupStart
    /\ \E name \in Titles, max_length \in Bounds :
          short = ShortenStart(name, max_length)
    /\ prog = ProgressStart(0, 1, 0)
    /\ enc = EncStart("handle_message")
    /\ proc = ProcStart(0, 0)

SpecShorten == ShortenInit /\ [][ShortenNext]_vars

ProgressInit ==
    /\ variant = "kot" /\ QInit /\ PInit
    /\ sink = SinkStart("ki")
    /\ job = JobStart("ki")
    /\ ass = SubStart(FALSE, FALSE, FALSE, <<>>)
    /\ mux = MergeStart(1, Absent)
    /\ look = LookupStart
    /\ short = ShortenStart(<<>>, DefaultBound)
    /\ \E current \in Samples, total \in Samples, elapsed_time \in Elapsed :
          prog = ProgressStart(current, total, elapsed_time)
    /\ enc = EncStart("handle_message")
    /\ proc = ProcStart(0, 0)

SpecProgress == ProgressInit /\ [][ProgressNext]_vars

EncInit ==
    /\ variant = "kot" /\ QInit /\ PInit
    /\ sink = SinkStart("ki")
    /\ job = JobStart("ki")
    /\ ass = SubStart(FALSE, FALSE, FALSE, <<>>)
    /\ mux = MergeStart(1, Absent)
    /\ look = LookupStart
    /\ short = ShortenStart(<<>>, DefaultBound)
    /\ prog = ProgressStart(0, 1, 0)
    /\ \E handler \in EncHandlers : enc = EncStart(handler)
    /\ proc = ProcStart(0, 0)

SpecEnc == EncInit /\ [][EncNext]_vars

ProcInit ==
    /\ variant = "kot" /\ QInit /\ PInit
    /\ sink = SinkStart("ki")
    /\ job = JobStart("ki")
    /\ ass = SubStart(FALSE, FALSE, FALSE, <<>>)
    /\ mux = MergeStart(1, Absent)
    /\ look = LookupStart
    /\ short = ShortenStart(<<>>, DefaultBound)
    /\ prog = ProgressStart(0, 1, 0)
    /\ enc = EncStart("handle_message")
    /\ \E out \in 0 .. MaxOut, err \in 0 .. MaxErr : proc = ProcStart(out, err)

\* the child and the event loop keep running: a step that can be taken is
\* taken, so the child terminates whenever its writes are accepted
SpecProc == ProcInit /\ [][ProcNext]_vars /\ WF_vars(ProcNext)

SpecPipe == PipeInit /\ [][PNext]_vars

Next == QNext

Spec == Init /\ [][Next]_vars

\* ------------------------------------------------------ queue properties
Alive(d) == pc[d] \notin {"unborn", "dead"}

FinishedAt(t) == {i \in DOMAIN finished : finished[i].task = t}

\* no handler is inside submit and no process_queue call exists
Quiescent ==
    /\ \A h \in Handlers : pc[h] \in {"idle", "done"}
    /\ \A d \in Drains : ~Alive(d)

\* C1: at most one Task body is executing at any instant.
C1_AtMostOneTaskRunning ==
    Cardinality({d \in Drains : pc[d] = "running"}) <= 1

\* C2: at any instant at most one drain loop (a process_queue call, started
\* or scheduled) exists.
C2_AtMostOneDrainLoop ==
    Cardinality({d \in Drains : Alive(d)}) <= 1

\* C3: completion order equals submission order: when a task has finished,
\* every task submitted before it has finished earlier.
C3_CompletionOrderIsSubmissionOrder ==
    \A i, j \in DOMAIN submitted :
        (i < j /\ FinishedAt(submitted[j]) # {}) =>
            \E a \in FinishedAt(submitted[i]) :
                \A b \in FinishedAt(submitted[j]) : a < b

\* C4: every step that changes task_queue or current_task is taken by the
\* process that holds queue_lock.
C4_MutationsUnderLock ==
    [][\A p \in Procs :
          (pc'[p] # pc[p] /\ p \in Handlers \cup {d \in Drains : Alive(d)}
           /\ (task_queue' # task_queue \/ current_task' # current_task))
          => queue_lock = p]_vars

\* C5: every submitted Task is invoked at most once.
C5_InvokedAtMostOnce ==
    \A t \in Tasks : invoked[t] <= 1

\* C6: every submitted Task is executed: once all submits have returned and
\* every drain loop has ended, each submitted task has been invoked.
C6_EverySubmittedTaskExecuted ==
    Quiescent =>
        \A i \in DOMAIN submitted : invoked[submitted[i]] >= 1

\* The second half of C6 on its own: a non-empty queue always has a drain
\* loop alive, or a submit about to decide on starting one.
NoLostWakeup ==
    (task_queue # <<>> /\ \A h \in Handlers : pc[h] \in {"idle", "done"})
        => \E d \in Drains : Alive(d)

\* C7: a raising Task leaves the pending queue unchanged and never ends the
\* drain loop: the loop goes through except and finally back to its head,
\* and process_queue returns only after it saw the queue empty.
C7_FailingTaskDoesNotStopDrain ==
    [][\A d \in Drains :
          /\ (pc[d] = "running" /\ pc'[d] = "except")
                => task_queue' = task_queue
          /\ (pc[d] = "except" /\ pc'[d] # pc[d]) => pc'[d] = "finally"
          /\ (pc[d] = "finally" /\ pc'[d] # pc[d]) => pc'[d] = "loop"
          /\ (pc[d] = "loop" /\ pc'[d] # pc[d]) => pc'[d] = "locked"
          /\ (pc[d] = "locked" /\ pc'[d] # pc[d]) =>
                pc'[d] = (IF task_queue = <<>> THEN "break" ELSE "popped")
          /\ (pc'[d] = "dead" /\ pc[d] # "dead") =>
                (pc[d] = "break" /\ task_queue = <<>>)]_vars

\* a drain loop that caught a raising Task is running the next Task
C7_Witness ==
    \E d \in Drains, i \in DOMAIN finished :
        /\ finished[i].raised
        /\ finished[i].by = d
        /\ pc[d] = "running"
        /\ running[d] # finished[i].task

\* --------------------------------------------------- pipeline properties
InProgress(r) == rpc[r] \notin {"idle", "done"}

\* C8: exactly one job runs at a time: no second pipeline executes a stage
\* while an earlier request's pipeline is still in progress.
C8_OneJobAtATime ==
    Cardinality({r \in Requests : InProgress(r)}) <= 1

\* C9: within one transfer, any two status emissions of the progress
\* callback are at least 2 seconds apart, measured at the sample times.
C9_EmissionsTwoSecondsApart ==
    \A r \in Requests :
        \A i \in DOMAIN emitted[r] :
            i > 1 => emitted[r][i] - emitted[r][i - 1] >= MinInterval

\* C10: the time a previous transfer (or the module load) left in
\* last_update_time never decides whether the first callback of a transfer
\* emits: first callbacks made at the same elapsed time of their own
\* transfer take the same decision.
C10_FirstCallbackIgnoresOldGate ==
    \A a, b \in first : a.elapsed = b.elapsed => a.emits = b.emits

\* ------------------------------------------- safe_edit_message properties
\* C11: safe_edit_message makes no edit call when the text to send is the
\* text the chat displays (the text of the last successful edit, or the
\* initial text), after any sequence of earlier calls.
C11_NoEditCallForDisplayedText ==
    sink.spc = "try" => sink.text # sink.shown

\* C12: on FloodWait safe_edit_message sleeps exactly e.x and sends once
\* more: at most two attempts per call, the second one after a sleep of
\* exactly the mandated wait, and whatever the second attempt raises leaves
\* the call.
C12_SleepsThenRetriesOnce ==
    /\ [](sink.attempts <= 2)
    /\ [](sink.spc = "retry" => sink.slept = sink.x /\ sink.x >= 1)
    /\ [][sink.spc = "retry" =>
            /\ sink'.spc = "idle"
            /\ sink'.attempts = 2
            /\ sink'.result \in {"ok", "raised"}]_sink

\* a call ended by the failure of its retry
C12_Witness ==
    /\ sink.spc = "idle"
    /\ sink.attempts = 2
    /\ sink.slept = MaxWait
    /\ sink.result = "raised"

\* ---------------------------------------------------- task body properties
InTrace(step) == \E i \in DOMAIN job.trace : job.trace[i] = step

\* file_size - 2 * 1024**3, for sizes below 4 * 1024**3
Excess(file_size) == (file_size.hi - LimitGiB) * Giga + file_size.lo

\* the gate decides "over" exactly for the sizes above 2 * 1024**3, never
\* sends an oversized file, and lets every other file go to send_document
GateIsStrict ==
    /\ job.gate # "none" => (job.gate = "over" <=> Excess(job.file_size) > 0)
    /\ job.gate = "over" => ~InTrace("send") /\ job.jpc # "send"
    /\ job.gate = "fits" => InTrace("send") \/ job.jpc = "send"

\* C13 as stated: a file larger than 2*1024^3 bytes is never sent and the
\* task ends with the size-limit message; any other file (2*1024^3 bytes
\* exactly included) goes to send_document.
C13_SizeGate ==
    /\ GateIsStrict
    /\ job.gate = "over" /\ Terminal => job.shown.kind = "size_limit"

\* C13, amended: as above, but the task ends with the size-limit message
\* only if the channel accepts that edit; if the edit is rejected the task
\* ends through the upload error handler, still without sending.
C13_SizeGateAmended ==
    /\ GateIsStrict
    /\ job.gate = "over" /\ Terminal /\ "size_limit" \notin job.rejected
          => job.shown.kind = "size_limit"
    /\ job.gate = "over" /\ Terminal /\ "size_limit" \in job.rejected
          => "upload_error" \in job.rejected \/ job.shown.kind = "upload_error"

\* a file of 2*1024^3 + 1 bytes turned away with the size-limit message
C13_Witness ==
    /\ Terminal
    /\ job.gate = "over"
    /\ job.file_size = Bytes(LimitGiB, 1)
    /\ job.shown.kind = "size_limit"
    /\ ~InTrace("send")

\* a file of exactly 2*1024^3 bytes delivered
ExactLimitDelivered ==
    job.gate = "fits" /\ job.file_size = Limit /\ job.delivered

\* C14: once send_document has succeeded, the local file and its thumbnail
\* (if any) are deleted on every path, however the later steps end.
C14_AssetDeletedAfterDelivery ==
    Terminal /\ job.delivered
       => job.removed /\ (job.thumbnail_path => job.thumb_removed)

\* after a non-zero exit status no scan, enrichment, mux or upload step runs
NothingAfterFailedDownload ==
    job.returncode = 1 =>
        \A step \in {"scan", "enrich", "sign", "mux", "upload", "send",
                     "mirror", "remove"} : ~InTrace(step)

\* C15 as stated: after a non-zero exit status the final status message
\* carries the captured stderr verbatim, and no scan, enrichment, mux or
\* upload step is performed.
C15_FailedDownloadReported ==
    /\ NothingAfterFailedDownload
    /\ job.returncode = 1 /\ Terminal
          => job.shown = Msg("download_error", job.stderr)

\* C15, amended: as above, the final status message carrying stderr
\* provided the channel accepts the edit that carries it.
C15_FailedDownloadReportedAmended ==
    /\ NothingAfterFailedDownload
    /\ job.returncode = 1 /\ Terminal /\ "download_error" \notin job.rejected
          => job.shown = Msg("download_error", job.stderr)

\* a failed download reported with its stderr
C15_Witness ==
    /\ Terminal
    /\ job.returncode = 1
    /\ job.stderr = "e2"
    /\ job.shown = Msg("download_error", "e2")

\* C16: no failure inside the enrichment or mux stages makes the task give
\* up: after any such failure the upload stage is still attempted.
C16_EnrichAndMuxFailuresTolerated ==
    Terminal /\ job.mishaps # {} => InTrace("upload")

\* C17: auto_rename_with_anitopy never raises into the pipeline: whatever
\* fails inside it, it returns and the task goes on with its result.
C17_EnrichNeverRaises ==
    job.fault # "unset" =>
        /\ job.enriched
        /\ job.thumbnail_path => job.fault = "none"

\* the catalog lookup raised inside enrichment and the task went on to upload
C17_Witness ==
    /\ job.fault = "lookup_raises"
    /\ job.enriched
    /\ InTrace("upload")

Rank(step) ==
    CASE step \in {"spawn", "exit"} -> 1
      [] step \in {"scan", "enrich"} -> 2
      [] step \in {"sign", "mux"} -> 3
      [] step \in {"upload", "send", "mirror"} -> 4
      [] step = "remove" -> 5

\* C20: within one task the stages run in the order download, enrich, mux,
\* upload, cleanup: no scan or enrichment before exit status 0 was seen, no
\* upload before enrichment and mux are over, no deletion before the upload
\* has completed.
C20_StagesInFixedOrder ==
    /\ \A i, k \in DOMAIN job.trace :
          i < k => Rank(job.trace[i]) <= Rank(job.trace[k])
    /\ InTrace("scan") => InTrace("exit") /\ job.returncode = 0
    /\ InTrace("upload") => InTrace("enrich") /\ job.jpc \notin {"sign", "chapters"}
    /\ InTrace("remove") => InTrace("send") /\ job.delivered

\* a run of ki.py through every stage
C20_Witness ==
    /\ Terminal
    /\ job.trace = <<"spawn", "exit", "scan", "enrich", "sign", "mux",
                     "upload", "send", "remove">>

\* ------------------------------------------- sign subtitle properties
\* C18: when the filter keeps no cue, nothing is merged: add_sign_subtitles
\* is not called and the container stays as it was.
C18_NoMergeOfEmptyResult ==
    ass.filtered /\ ass.sign_lines = <<>>
       => ~ass.merge_called /\ ~ass.container_changed

\* the three predicates of the filter, on the fields the cue was built from
Wanted(c) ==
    \/ \E keyword \in style_keywords : Has(c.style, keyword)
    \/ \E keyword \in effect_text_keywords :
          Has(c.effect, keyword) \/ Has(c.text, keyword)
    \/ Has(c.name, actor_keyword)

WantedWhole(c) == c.whole /\ Wanted(c)

\* C19: a Dialogue cue of the Events section is kept if and only if its
\* style contains a style keyword, or its effect or text contains one of
\* \an, \fad, \pos, \fs, or its actor contains "Sign"; every other cue is
\* dropped.  The kept lines are exactly those cues, in file order.
C19_KeptIffAnyPredicate ==
    ass.filtered /\ ass.events
       => ass.sign_lines = CueLines(SelectSeq(ass.cues, WantedWhole))

\* a cue kept only for a token behind a comma of its text, next to a plain
\* cue that is dropped
C19_Witness ==
    /\ ass.filtered
    /\ ass.events
    /\ Len(ass.cues) = 2
    /\ ass.cues[1] = [style |-> <<"Default">>, name |-> <<>>,
                      effect |-> <<>>,
                      text |-> <<"well", ",", "{", "\\an", "}", "yes">>,
                      whole |-> TRUE]
    /\ ass.cues[2] = [style |-> <<"Default">>, name |-> <<>>,
                      effect |-> <<>>, text |-> <<"hello">>, whole |-> TRUE]
    /\ ass.sign_lines = <<CueLine(ass.cues[1])>>

\* ----------------------------------------------- chapter merge properties
\* after a successful chapter merge every later stage works on output_file
MuxedFileSupersedes ==
    job.mux_returncode = 0 =>
        /\ job.latest_file = "muxed"
        /\ job.sized \in {"none", "muxed"}
        /\ job.sent \in {"none", "muxed"}
        /\ job.deleted \in {"none", "muxed"}

\* after a failed chapter merge latest_file is still the muxer's input
FailedMuxKeepsFile ==
    job.mux_returncode = 1 =>
        /\ job.latest_file = job.input_file
        /\ job.sized \in {"none", job.input_file}
        /\ job.sent \in {"none", job.input_file}
        /\ job.deleted \in {"none", job.input_file}

\* C21: when the muxer exits non-zero the pipeline continues with the
\* original file path and reports the muxer's diagnostic text; when it exits
\* zero every later stage (size check, upload, deletion) uses the new path.
C21_ChapterMergeOutcome ==
    /\ MuxedFileSupersedes
    /\ FailedMuxKeepsFile
    /\ job.mux_returncode = 1 /\ Terminal => InTrace("upload")

\* ------------------------------------------- add_sign_subtitles properties
\* C22: add_sign_subtitles leaves no temporary file; on success the file at
\* the original path is the merged output, on every failure (muxer exits
\* non-zero, muxer not launchable, subtitle file missing) it is the file
\* that was there before.
C22_MergeIsAllOrNothing ==
    mux.mpc = "done" =>
        /\ mux.fs.temp_output = Absent
        /\ mux.returned = "True" =>
              mux.fs.input_file = Merged(mux.original, mux.fs.sign_sub_file)
        /\ mux.returned = "False" => mux.fs.input_file = mux.original
        /\ mux.returned \in {"True", "False"}

\* the muxer wrote part of the output and failed: the part is gone and the
\* container is the original
C22_Witness ==
    /\ mux.mpc = "done"
    /\ mux.returncode = 2
    /\ mux.made_temp
    /\ mux.returned = "False"
    /\ mux.fs.temp_output = Absent
    /\ mux.fs.input_file = mux.original

\* ---------------------------------------------- rebuilt header properties
NotDialogue(line) == ~StartsWith(line, "Dialogue:")

C24_LookupBoundedAndDecisive ==
    /\ look.attempts <= retries
    /\ look.lpc = "request" /\ look.last = "transport" => look.slept = Backoff
    /\ look.last = "url" => look.lpc \in {"returned", "done"}
    /\ look.last \in {"missing", "null", "badjson"} =>
          /\ look.lpc \in {"returned", "done"}
          /\ look.results[look.lookup] = "None"
    /\ look.last = "url" => look.results[look.lookup] = "url"

\* the parts of C24 that hold: the bound, the backoff, and the outcome of a
\* 200 response whose body has the URL or lacks a key
LookupBounded ==
    /\ look.attempts <= retries
    /\ look.lpc = "request" /\ look.last = "transport" => look.slept = Backoff
    /\ look.last \in {"url", "missing"} =>
          /\ look.lpc \in {"returned", "done"}
          /\ look.results[look.lookup]
               = (IF look.last = "url" THEN "url" ELSE "None")

\* C25: one enrich call runs the fallback lookup at most once, only after a
\* first lookup that found nothing, and the fallback never leads to another
\* lookup: at most 2 lookups per call.
C25_FallbackAtMostOnce ==
    /\ look.lookup <= 2
    /\ Len(look.results) <= 2
    /\ look.lookup = 2 => look.results[1] = "None"
    /\ look.lpc = "done" /\ look.lookup = 1 => look.results[1] # "None"

\* a fallback lookup that found nothing either, after three requests each
C25_Witness ==
    /\ look.lpc = "done"
    /\ look.results = <<"None", "None">>
    /\ Len(look.hist) = 2 * retries

\* --------------------------------------------- title shortening properties
EndsWithEllipsis(str) ==
    /\ Len(str) >= Len(Ellipsis)
    /\ SubSeq(str, Len(str) - Len(Ellipsis) + 1, Len(str)) = Ellipsis

\* what the claim says of a call with bound N
ShortenedWithin(N) ==
    LET name == short.name
        result == short.result
        segment == Strip(FirstPart(name))
    IN  /\ Len(result) <= N
        /\ Len(name) <= N => result = name
        /\ Len(name) > N /\ Len(segment) <= N => result = segment
        /\ Len(name) > N /\ Len(segment) > N =>
              /\ Len(result) = N
              /\ EndsWithEllipsis(result)
              /\ \A i \in 1 .. N - Len(Ellipsis) : result[i] = segment[i]

C27_MissingToolFailsFast ==
    job.tool = "missing" =>
        /\ job.trace = <<>>
        /\ job.lines = 0
        /\ job.jpc \in {"done", "except_outer", "raised"}
        /\ job.shown.kind = "tool_missing" \/ "tool_missing" \in job.rejected

\* the task ended on the report of the missing tool
C27_Witness ==
    /\ job.jpc = "done"
    /\ job.tool = "missing"
    /\ job.shown = Msg("tool_missing", "")
    /\ job.trace = <<>>

\* the task is over without having reached the deletion of the file
Abandoned == Terminal /\ ~InTrace("remove")

\* C28: on every path on which the task is abandoned, the last status text
\* is a failure message, and the only one shown, provided the channel
\* accepts the edit.
C28_AbortEndsWithOneFailureMessage ==
    Abandoned /\ job.last_edit = "accepted" =>
        /\ job.shown.kind \in FailureKinds
        /\ job.failures_shown = 1

\* send_document failed and the task ended on "Error during upload"
C28_Witness ==
    /\ Abandoned
    /\ job.last_edit = "accepted"
    /\ InTrace("send")
    /\ ~job.delivered
    /\ job.shown.kind = "upload_error"

\* ------------------------------------------------------ order of service
\* the number of tasks popped so far
Popped == Len(submitted) - Len(task_queue)

\* every pop takes the oldest pending task: the k-th pop yields the k-th
\* submitted task (deque.popleft under queue_lock)
PopsInSubmissionOrder ==
    [][\A d \in Drains :
          (pc[d] = "locked" /\ pc'[d] = "popped") =>
              current_task' = submitted[Popped + 1]]_vars

\* C29: tasks are popped and started in exactly the order in which they were
\* submitted: every pop takes the oldest pending task, and every call that
\* follows a pop starts a task that was not started before and whose
\* predecessors in submission order have all been started.
C29_StrictFifo ==
    [][\A d \in Drains :
          /\ (pc[d] = "locked" /\ pc'[d] = "popped") =>
                current_task' = submitted[Popped + 1]
          /\ (pc[d] = "call" /\ pc'[d] # pc[d]) =>
                /\ pc'[d] = "running"
                /\ invoked[running'[d]] = 0
                /\ \A i, j \in DOMAIN submitted :
                      (i < j /\ submitted[j] = running'[d]) =>
                          invoked[submitted[i]] >= 1]_vars

\* the listing is being built: handle_message is inside its with block
Listing == status.lpc \in {"locked", "read", "unlock"}

\* C30: listing the pending queue never interleaves with a pop or an append
\* (the queue does not change while the listing is built), and the listing
\* that is complete and about to be replied is the queue as it was at one
\* instant, the entry of the with block.
C30_ListingIsSnapshot ==
    /\ [][Listing /\ Listing' => task_queue' = task_queue]_vars
    /\ [](status.lpc = "unlock" => status.seen = status.snapshot)

\* the listing has read the first of two pending tasks while a drain loop
\* waits for queue_lock to pop
C30_Witness ==
    /\ status.lpc = "read"
    /\ Len(status.seen) = 1
    /\ Len(task_queue) = 2
    /\ \E d \in Drains : pc[d] \in {"start", "loop"}

\* --------------------------------------------------- holding queue_lock
\* the statements inside a with queue_lock block
InSubmitBlock(h) == pc[h] \in {"locked", "appended", "unlock"}

InDrainBlock(d) == pc[d] \in {"locked", "break", "popped"}

\* the next statement of the holder of queue_lock can be executed
HolderCanStep ==
    /\ \A h \in Handlers : queue_lock = h =>
          ENABLED (HandlerAppend(h) \/ HandlerStartWorker(h)
                   \/ HandlerNoWorker(h) \/ HandlerUnlock(h))
    /\ \A d \in Drains : queue_lock = d =>
          ENABLED (DrainEmpty(d) \/ DrainPop(d) \/ DrainUnlock(d))
    /\ queue_lock = Lister => ENABLED (ListTest \/ ListRead \/ ListUnlock)

\* C31: queue_lock is held only inside the with blocks (a submit holds it for
\* the append, the test of current_task and the start of the worker), never
\* while the holder runs a Task body and never at a suspension point of the
\* event loop; the holder can always go on to release it, so no deadlock on
\* queue_lock is reachable, and a submit that holds it while a Task is
\* running goes on to its end.
C31_LockNeverHeldAcrossTask ==
    /\ \A h \in Handlers : queue_lock = h <=> InSubmitBlock(h)
    /\ \A d \in Drains : queue_lock = d <=> InDrainBlock(d)
    /\ \A d \in Drains :
          pc[d] \in {"call", "running", "except", "finally"} => queue_lock # d
    /\ (variant = "ki" /\ cpu = None) => queue_lock = None
    /\ HolderCanStep

\* a submit is at the end of its with block while a Task body is running
C31_Witness ==
    \E h \in Handlers, d \in Drains :
        /\ pc[d] = "running"
        /\ pc[h] = "unlock"
        /\ queue_lock = h
        /\ running[d] # h

\* ------------------------------------------------- progress properties
SpeedComputed == prog.ppc \notin {"speed", "raised"} \/ prog.raised \in {"eta", "percentage"}

EtaComputed == prog.ppc \in {"percentage", "edit", "done"} \/ prog.raised = "percentage"

\* C32: the computed speed is 0 whenever the elapsed time is <= 0, the
\* computed ETA is 0 whenever the speed is 0, and neither the speed nor the
\* ETA computation divides by zero.
C32_SpeedAndEtaGuarded ==
    /\ (SpeedComputed /\ prog.elapsed_time <= 0) => prog.speed = Zero
    /\ (EtaComputed /\ prog.speed.n = 0) => prog.eta = Zero
    /\ prog.raised \notin {"speed", "eta"}

\* a sample taken at an elapsed time of zero with bytes already sent: both
\* figures were computed as 0 and the edit was reached
C32_Witness ==
    /\ prog.ppc = "done"
    /\ prog.elapsed_time = 0
    /\ prog.current > 0
    /\ prog.total > prog.current
    /\ prog.speed = Zero
    /\ prog.eta = Zero

\* C33: for every outcome of auto_rename_with_anitopy, a failure after the
\* rename included, the path it returns names the file as it is on disk.
C33_ReturnedPathExists ==
    job.enriched => ~job.stale

\* C34: forwarding the tool's output never abandons the task because of
\* unchanged content: a safe_edit_message call whose text is the text the
\* chat displays (the same Progress line printed twice in a row) is skipped
\* as a no-op, so it sends no edit and cannot raise.
C34_RepeatedLineIsSkipped ==
    [][(sink.spc = "idle" /\ sink'.announces = sink.announces + 1
        /\ sink'.text = sink.shown)
          => (sink'.result = "skipped" /\ sink'.spc = "idle")]_vars

\* C35: current_task is not None at every instant at which a Task body is
\* executing: no drain loop clears it while some Task is still running.
C35_MarkerSetWhileRunning ==
    (\E d \in Drains : pc[d] = "running") => current_task # None

\* C36: after a Task whose upload succeeded has completed (it reached the
\* deletion of the uploaded file), no .mkv file the Task created or renamed
\* remains in the scan directory.
C36_NoVideoLeftBehind ==
    (job.jpc = "done" /\ job.delivered /\ job.removed) => job.videos = {}

\* ------------------------------------------------ encoder task properties
\* C37: whenever a task of mkv.py ends, successfully or by a failure at any
\* stage, cleanup_files has been applied to every file the task created: the
\* call was made and none of the task's files is left.
C37_CleanupOnEveryExit ==
    enc.epc = "ended" => (enc.cleanup = "called" /\ enc.files = {})

\* ------------------------------------------------ rebuilt file layout
\* the lines written back: "\n".join(header), then the kept cues
Rebuilt == ass.header \o ass.sign_lines

\* the section header that line i of a file stands under, <<>> if none
SectionOf(lines, i) ==
    LET above == {k \in 1 .. i - 1 : StartsSection(lines[k])}
    IN  IF above = {} THEN <<>>
        ELSE lines[CHOOSE k \in above : \A m \in above : m <= k]

\* C38: in the rebuilt file every kept Dialogue cue lies inside the Events
\* section: the nearest section header above it is [Events], followed by its
\* Format line, also when other sections follow [Events] in the input.
C38_CuesInsideEvents ==
    ass.filtered =>
        \A i \in Len(ass.header) + 1 .. Len(Rebuilt) :
            StartsWith(Rebuilt[i], "Dialogue:") =>
                /\ StartsWith(SectionOf(Rebuilt, i), "[Events]")
                /\ \E k \in 1 .. i - 1 :
                      /\ StartsWith(Rebuilt[k], "[Events]")
                      /\ Rebuilt[k + 1] = FormatLine
                      /\ \A m \in k + 1 .. i - 1 : ~StartsSection(Rebuilt[m])

\* --------------------------------------------------- pipe properties
\* C39: the download stage eventually observes end-of-stream on standard
\* output and then the exit status, however much the process writes to
\* standard error, which is not read before the process has exited.
C39_DownloadObservesExit ==
    <>(proc.eof /\ proc.returncode = proc.status /\ proc.child = "exited")

====
